---- MODULE Spec2Model ----
(***************************************************************************)
(* Verification model of the fry-drop recommendation service:              *)
(*   - RecommendationEngine   (src/app/recommendations.py)                 *)
(*   - AnalyticsStore         (src/app/analytics_store.py)                 *)
(*                                                                         *)
(* Numbers.  Python floats are modelled as fixed-point thousandths         *)
(* (an integer n stands for n / 1000), truncating toward minus infinity    *)
(* after each multiplication or division.  Timestamps are whole seconds.   *)
(* Customer counts, unit quantities and ids are integers as in the code.   *)
(***************************************************************************)
EXTENDS Integers, Sequences, FiniteSets, TLC

VARIABLES
    \* ---- RecommendationEngine fields ----
    item_profiles,                 \* key -> ItemProfile
    history,                       \* deque of (timestamp, customers), maxlen 90
    inventory,                     \* key -> ItemInventoryState
    last_inventory_timestamp,
    last_decision_timestamp,
    last_decision_by_item,
    feedback_multiplier_by_item,
    feedback_events_by_item,
    business,                      \* business_name .. service_model, avg_ticket_usd
    \* ---- what the engine's callers observe ----
    resp,                          \* payload returned by the last generate()
    last_op,                       \* the last engine call and how it ended
    ops,                           \* number of engine calls made so far
    \* ---- observers of the engine's outputs (history variables) ----
    committed,                     \* last due tick: timestamp and units per item
    oscillation,                   \* per item: when the reported units last changed
    fallback_seen,                 \* a non-ok snapshot was served since the last reset
    ledger,                        \* per item: lot units committed / promoted / consumed
    \* ---- AnalyticsStore: the sqlite database ----
    samples,                       \* table analytics_samples, in id order
    feedback_rows,                 \* table recommendation_feedback, in id order
    wall_now,                      \* datetime.now(timezone.utc), whole seconds
    store_op,                      \* the last store call and how it ended
    store_ops,                     \* number of store calls made so far
    sweeps,                        \* observer: committed sweeps, and when each row left pending
    \* ---- AnalyticsStore: the in-memory broadcaster ----
    store_history,                 \* _history: deque of points, maxlen memory_points
    latest_id,
    latest_metrics,
    latest_recommendation,
    stop_event,
    sampler,                       \* position of the _run thread and the point it carries
    subs,                          \* per subscriber: position in stream_events, cursor, timer
    \* ---- the service around the engine (src/app/main.py) ----
    reco_lock,                     \* threading.Lock guarding the engine: its holder, or "free"
    threads,                       \* per thread: its position inside an engine call
    db_lock,                       \* AnalyticsStore._db_lock: its holder, or "free"
    history_lock,                  \* AnalyticsStore._lock (and _condition): its holder, or "free"
    workers,                       \* per thread: the locks it holds, the with blocks still to run
    \* ---- _decision_due applied to sub-second timestamps ----
    clock_probe,                   \* the arguments and the result of the last application
    urgency_probe                  \* thresholds as configured and built, and two gaps classified

engineVars == <<item_profiles, history, inventory, last_inventory_timestamp,
                last_decision_timestamp, last_decision_by_item,
                feedback_multiplier_by_item, feedback_events_by_item, business,
                resp, last_op, ops, committed, oscillation, fallback_seen, ledger>>

dbVars == <<samples, feedback_rows, wall_now, store_op, store_ops, sweeps>>

streamVars == <<store_history, latest_id, latest_metrics, latest_recommendation,
                stop_event, sampler, subs>>

lockVars == <<reco_lock, threads, db_lock, history_lock, workers>>

probeVars == <<clock_probe, urgency_probe>>

vars == <<engineVars, dbVars, streamVars, lockVars, probeVars>>

(***************************************************************************)
(* Bounds of the model and the small input sets.                           *)
(***************************************************************************)
MaxOps == 4            \* engine calls per run of Spec
MaxLongOps == 7        \* engine calls per run of SpecLongRun
MaxFeedbackOps == 8    \* engine calls per run of SpecFeedback
MaxLockedOps == 4      \* engine calls per run of SpecLocked
MaxConfigureOps == 3   \* engine calls per run of SpecConfigure
MaxRampOps == 93       \* engine calls per run of SpecRamp
MaxClockOps == 3       \* engine calls per run of SpecClock
MaxRuleOps == 4        \* engine calls per run of SpecRule
MaxEvaluateOps == 3    \* store calls per run of SpecEvaluate
MaxLiveOps == 3        \* counted store calls per run of SpecLive
MaxEvaluateSamples == 3 \* rows of analytics_samples in SpecEvaluate
MaxStoreOps == 3       \* store calls per run of SpecStore
MaxWallTicks == 2      \* wall-clock steps per run of SpecStore
MaxStoreSamples == 1   \* samples taken per run of SpecStore
SweepLimit == 2        \* rows per sweep (the code's LIMIT 1000, scaled down)
MemoryPoints == 3      \* ring capacity (the code's minimum of 300, scaled down)
MaxSamples == 6       \* rows of analytics_samples per run
TickTenths == 50       \* longest step of monotonic time, tenths of a second

Scale == 10 * 10 * 10  \* fixed-point denominator: thousandths

\* None for a datetime | None field; every real timestamp is >= 0.
NoTime == -1

TenthsPerSec == 2 * 5

None == <<>>
Some(x) == <<x>>

Min(a, b) == IF a <= b THEN a ELSE b
Max(a, b) == IF a >= b THEN a ELSE b

\* floor(a * b / Scale) for a >= 0, b >= 0, without overflowing 32-bit integers.
MulMilli(a, b) == (a \div Scale) * b + ((a % Scale) * b) \div Scale

\* a / b in thousandths for 0 <= a <= b, b > 0, by long division (no wide product)
DivMilli(a, b) ==
    LET tenth == (a % b) * TenthsPerSec
        hundredth == (tenth % b) * TenthsPerSec
        thousandth == (hundredth % b) * TenthsPerSec
    IN (a \div b) * Scale + (tenth \div b) * (Scale \div TenthsPerSec)
       + (hundredth \div b) * TenthsPerSec + thousandth \div b

RECURSIVE SumSeq(_)
SumSeq(s) == IF s = <<>> THEN 0 ELSE Head(s) + SumSeq(Tail(s))

(***************************************************************************)
(* Construction-time configuration (RecommendationEngine.__init__ with no  *)
(* environment overrides).                                                 *)
(***************************************************************************)
forecast_horizon_min == 8
drop_cadence_min == 4
decision_interval_sec == 30
cook_time_sec == 240
HistoryMaxLen == 90
TrailingWindow == 12
StreamTimeoutTenths == 150     \* stream_events: timeout_sec=15.0
MinWaitTenths == 1             \* _wait_for_point_after: max(0.1, timeout_sec)

Profile(k, upo, batch, maxu, base, cost) ==
    [key |-> k, units_per_order |-> upo, batch_size |-> batch,
     max_unit_size |-> maxu, baseline_drop_units |-> base, unit_cost_usd |-> cost]

\* The business fields set by the constructor; avg_ticket_usd in thousandths.
DefaultBusiness ==
    [business_name |-> "Steel City Chicken", business_type |-> "Fast Food",
     location |-> "Pittsburgh, PA", service_model |-> "Drive-thru + Counter",
     avg_ticket_usd |-> 10500]

\* The catalog built by the constructor.
DefaultProfiles ==
    LET ps == { Profile("fillets", 580, 8, 24, 16, 920),
                Profile("nuggets", 360, 6, 20, 12, 680),
                Profile("fries",   720, 10, 28, 18, 440),
                Profile("strips",  150, 8, 20, 8, 860) }
    IN [k \in {p.key : p \in ps} |-> CHOOSE p \in ps : p.key = k]

\* A catalog an operator may configure: one item, half a unit per order.
DemoProfiles ==
    LET ps == { Profile("wings", 500, 5, 10, 6, 500) }
    IN [k \in {p.key : p \in ps} |-> CHOOSE p \in ps : p.key = k]


(***************************************************************************)
(* RecommendationEngine: state construction and repair.                    *)
(***************************************************************************)
InitialReadyUnitsToCapacity(profile) == Max(0, profile.max_unit_size) * Scale

\* min(int(baseline_drop_units), int(max_unit_size)), floored at 0, as a float
InitialReadyUnits(profile) ==
    Max(0, Min(profile.baseline_drop_units, profile.max_unit_size)) * Scale

ResetInventoryState(profiles) ==
    [k \in DOMAIN profiles |->
        [ready_units |-> InitialReadyUnits(profiles[k]), fryer_lots |-> <<>>]]

ResetDecisionByItem(profiles) == [k \in DOMAIN profiles |-> 0]

ResetFeedbackMultiplier(profiles) == [k \in DOMAIN profiles |-> Scale]

ResetFeedbackEvents(profiles) == [k \in DOMAIN profiles |-> 0]

EnsureInventoryStateRebuilds(inv, profiles) ==
    [k \in DOMAIN profiles |->
        [ready_units |-> InitialReadyUnits(profiles[k]), fryer_lots |-> <<>>]]

\* _ensure_inventory_state: stale keys dropped, missing keys default-initialised
EnsureInventoryState(inv, profiles) ==
    [k \in DOMAIN profiles |->
        IF k \in DOMAIN inv THEN inv[k]
        ELSE [ready_units |-> InitialReadyUnits(profiles[k]), fryer_lots |-> <<>>]]

EnsureDecisionByItem(dec, profiles) ==
    [k \in DOMAIN profiles |-> IF k \in DOMAIN dec THEN dec[k] ELSE 0]

\* _ensure_feedback_state
EnsureFeedbackMultiplierResets(mult, profiles) == [k \in DOMAIN profiles |-> Scale]

EnsureFeedbackMultiplier(mult, profiles) ==
    [k \in DOMAIN profiles |-> IF k \in DOMAIN mult THEN mult[k] ELSE Scale]

EnsureFeedbackEvents(events, profiles) ==
    [k \in DOMAIN profiles |-> IF k \in DOMAIN events THEN events[k] ELSE 0]

(***************************************************************************)
(* Trend estimator.                                                        *)
(***************************************************************************)
\* deque(maxlen=90).append
HistoryAppend(h, sample) ==
    LET grown == Append(h, sample)
    IN IF Len(grown) > HistoryMaxLen THEN Tail(grown) ELSE grown

TrendPerMinLastTwo(h) ==
    IF Len(h) < 2 THEN 0
    ELSE LET delta_sec == h[Len(h)].t - h[Len(h) - 1].t
         IN IF delta_sec <= 0 THEN 0
            ELSE ((h[Len(h)].c - h[Len(h) - 1].c) * 60) \div delta_sec

\* customers per minute, thousandths
TrendPerMin(h) ==
    IF Len(h) < 2 THEN 0
    ELSE LET delta_sec == h[Len(h)].t - h[1].t
         IN IF delta_sec <= 0 THEN 0
            ELSE ((h[Len(h)].c - h[1].c) * 60) \div delta_sec

\* _state_from_trend
StateFromTrend(trend_per_min) ==
    IF trend_per_min >= 850 THEN "surging"
    ELSE IF trend_per_min <= -750 THEN "falling"
    ELSE "steady"

StabilizedCustomerCount(h, current_customers) ==
    IF h = <<>> THEN Max(0, current_customers)
    ELSE LET window_size == Min(TrailingWindow, Len(h))
             recent == SubSeq(h, Len(h) - window_size + 1, Len(h))
             trailing_avg == SumSeq([i \in 1..window_size |-> recent[i].c])
                                \div Max(1, window_size)
         IN Max(0, (650 * trailing_avg + 350 * Max(0, current_customers)) \div Scale)

ProjectedCustomers(h, current_customers) ==
    Max(0, StabilizedCustomerCount(h, current_customers)
            + TrendPerMin(h) * Max(0, forecast_horizon_min))

(***************************************************************************)
(* Inventory simulator.                                                    *)
(***************************************************************************)
RoundToNearestUnitHalfDown(units) ==
    IF units <= 0 THEN 0 ELSE units \div Scale

\* _round_to_nearest_unit: floor(units + 0.5), 0 for non-positive input
RoundToNearestUnit(units) ==
    IF units <= 0 THEN 0 ELSE (units + Scale \div 2) \div Scale

\* units per minute, thousandths; cadence floored at half a minute
DemandRateUnitsPerMin(customer_load, profile) ==
    LET cadence_half_min == Max(1, 2 * drop_cadence_min)
        customers_per_min == (Max(0, customer_load) * 2) \div cadence_half_min
    IN MulMilli(customers_per_min, profile.units_per_order)

FryerUnits(state) ==
    SumSeq([i \in 1..Len(state.fryer_lots) |-> Max(0, state.fryer_lots[i].units)])

RECURSIVE MaturedPrefixStrict(_, _)
MaturedPrefixStrict(lots, timestamp) ==
    IF lots # <<>> /\ Head(lots).ready_at < timestamp
    THEN 1 + MaturedPrefixStrict(Tail(lots), timestamp)
    ELSE 0

\* while fryer_lots and fryer_lots[0].ready_at <= timestamp: popleft()
RECURSIVE MaturedPrefix(_, _)
MaturedPrefix(lots, timestamp) ==
    IF lots # <<>> /\ Head(lots).ready_at <= timestamp
    THEN 1 + MaturedPrefix(Tail(lots), timestamp)
    ELSE 0

ConsumedUnits(customer_load, profile, elapsed_sec) ==
    (DemandRateUnitsPerMin(customer_load, profile) * elapsed_sec) \div 60

AdvanceItemNoCap(state, profile, timestamp, customer_load, elapsed_sec) ==
    LET n == MaturedPrefix(state.fryer_lots, timestamp)
        cooked == SumSeq([i \in 1..n |-> Max(0, state.fryer_lots[i].units)])
    IN [ready_units |-> Max(0, state.ready_units + cooked * Scale
                                 - ConsumedUnits(customer_load, profile, elapsed_sec)),
        fryer_lots |-> SubSeq(state.fryer_lots, n + 1, Len(state.fryer_lots))]

AdvanceItemLosesCooked(state, profile, timestamp, customer_load, elapsed_sec) ==
    LET n == MaturedPrefix(state.fryer_lots, timestamp)
        consumed == Max(0, state.ready_units
                            - ConsumedUnits(customer_load, profile, elapsed_sec))
    IN [ready_units |-> Min(consumed, profile.max_unit_size * 6 * Scale),
        fryer_lots |-> SubSeq(state.fryer_lots, n + 1, Len(state.fryer_lots))]

\* the body of _advance_inventory's loop for one item
AdvanceItem(state, profile, timestamp, customer_load, elapsed_sec) ==
    LET n == MaturedPrefix(state.fryer_lots, timestamp)
        cooked == SumSeq([i \in 1..n |-> Max(0, state.fryer_lots[i].units)])
        promoted == state.ready_units + cooked * Scale
        consumed == Max(0, promoted - ConsumedUnits(customer_load, profile, elapsed_sec))
    IN [ready_units |-> Min(consumed, profile.max_unit_size * 6 * Scale),
        fryer_lots |-> SubSeq(state.fryer_lots, n + 1, Len(state.fryer_lots))]

AdvanceRunsFromEpoch(last_ts, timestamp) ==
    Max(0, timestamp - (IF last_ts = NoTime THEN 0 ELSE last_ts)) > 0

\* Whether _advance_inventory reaches its per-item loop.
AdvanceRuns(last_ts, timestamp) ==
    last_ts # NoTime /\ Max(0, timestamp - last_ts) > 0

\* _advance_inventory: the inventory map it leaves
AdvanceInventory(inv, profiles, last_ts, timestamp, customer_load) ==
    LET ensured == EnsureInventoryState(inv, profiles)
    IN IF AdvanceRuns(last_ts, timestamp)
       THEN [k \in DOMAIN profiles |->
                AdvanceItem(ensured[k], profiles[k], timestamp, customer_load,
                            Max(0, timestamp - last_ts))]
       ELSE ensured

AdvanceTimestampAlways(last_ts, timestamp) == timestamp

\* _advance_inventory: the baseline timestamp it leaves
AdvanceTimestamp(last_ts, timestamp) ==
    IF last_ts = NoTime THEN timestamp
    ELSE IF Max(0, timestamp - last_ts) <= 0 THEN last_ts
    ELSE timestamp

(***************************************************************************)
(* Decision clock and planner.                                             *)
(***************************************************************************)
DecisionDueAlways(last_decision, timestamp) == [due |-> TRUE, remaining |-> 0]

\* __init__: decision_interval_sec = max(5.0, RECO_DECISION_INTERVAL_SEC)
DecisionIntervalSec(configured_sec) == Max(5, configured_sec)

CeilDivRoundsDown(a, b) == a \div b

\* math.ceil(a / b), b > 0
CeilDiv(a, b) == -((-a) \div b)

\* _decision_due, on timestamps in tenths of a second: (due, remaining whole seconds)
DecisionDueAt(interval_sec, last_tenths, now_tenths) ==
    IF last_tenths = NoTime THEN [due |-> TRUE, remaining |-> 0]
    ELSE LET elapsed_tenths == Max(0, now_tenths - last_tenths)
         IN IF elapsed_tenths >= interval_sec * TenthsPerSec
            THEN [due |-> TRUE, remaining |-> 0]
            ELSE [due |-> FALSE,
                  remaining |->
                     Max(0, CeilDiv(interval_sec * TenthsPerSec - elapsed_tenths,
                                    TenthsPerSec))]

DecisionDueEitherWay(last_decision, timestamp) ==
    IF last_decision = NoTime THEN [due |-> TRUE, remaining |-> 0]
    ELSE LET elapsed_sec == Max(timestamp - last_decision, last_decision - timestamp)
         IN IF elapsed_sec >= decision_interval_sec
            THEN [due |-> TRUE, remaining |-> 0]
            ELSE [due |-> FALSE, remaining |-> decision_interval_sec - elapsed_sec]

\* _decision_due, on the engine's whole-second timestamps
DecisionDue(last_decision, timestamp) ==
    DecisionDueAt(decision_interval_sec,
                  IF last_decision = NoTime THEN NoTime ELSE last_decision * TenthsPerSec,
                  timestamp * TenthsPerSec)

NoProbe == [interval_sec |-> 0, last_tenths |-> NoTime, now_tenths |-> NoTime,
            due |-> FALSE, remaining |-> 0]

NoUrgencyProbe == [configured_medium |-> 0, configured_high |-> 0, gaps |-> <<>>]

ProbeInit == clock_probe = NoProbe /\ urgency_probe = NoUrgencyProbe

\* _decision_due(timestamp) on an engine configured with an interval and holding a
\* last-decision timestamp; the method changes nothing
DecisionDueProbe(configured_sec, last_tenths, now_tenths) ==
    LET interval_sec == DecisionIntervalSec(configured_sec)
        clock == DecisionDueAt(interval_sec, last_tenths, now_tenths)
    IN /\ clock_probe' = [interval_sec |-> interval_sec, last_tenths |-> last_tenths,
                          now_tenths |-> now_tenths,
                          due |-> clock.due, remaining |-> clock.remaining]
       /\ UNCHANGED <<engineVars, dbVars, streamVars, lockVars, urgency_probe>>

\* min(round(max(0, customers * units_per_order) * multiplier), max_unit_size)
RoundedTargetUnits(effective_customers, profile, multiplier) ==
    RoundToNearestUnit(
        MulMilli(Max(0, MulMilli(effective_customers, profile.units_per_order)),
                 multiplier))

TargetUnits(effective_customers, profile, multiplier) ==
    Min(RoundedTargetUnits(effective_customers, profile, multiplier),
        profile.max_unit_size)

RecommendedUnitsRecompute(due, held_units, target_units, max_units) == target_units

\* generate: a due tick takes the target, a held tick repeats the last decision
RecommendedUnits(due, held_units, target_units, max_units) ==
    IF due THEN target_units ELSE Min(Max(0, held_units), max_units)


(***************************************************************************)
(* Feedback adapter.                                                       *)
(***************************************************************************)
Clamp(value, lower, upper) == Max(lower, Min(upper, value))

FeedbackSignalIgnoresAction(action, recommended_units, chosen_units) ==
    Clamp((Max(0, chosen_units) * Scale) \div Max(1, Max(0, recommended_units)), 650, 1350)

\* action.strip().lower(), on the action texts the model feeds in
NormalizedAction(action) ==
    IF action \in {"Accept", " accept "} THEN "accept"
    ELSE IF action = "OVERRIDE" THEN "override"
    ELSE action

BoundedUnitsMagnitude(units) == Max(units, -units)

\* max(0, int(units))
BoundedUnits(units) == Max(0, units)

\* 1.0 for accept, else clamp(chosen / max(1, recommended), 0.65, 1.35)
FeedbackSignal(action, recommended_units, chosen_units) ==
    IF NormalizedAction(action) = "accept" THEN Scale
    ELSE LET bounded_recommended == BoundedUnits(recommended_units)
             bounded_chosen == BoundedUnits(chosen_units)
         IN Clamp((bounded_chosen * Scale) \div Max(1, bounded_recommended), 650, 1350)

UpdatedMultiplierUnclamped(prior_multiplier, signal) ==
    (820 * prior_multiplier + 180 * signal) \div Scale

\* clamp((1 - 0.18) * prior + 0.18 * signal, 0.75, 1.25)
UpdatedMultiplier(prior_multiplier, signal) ==
    Clamp((820 * prior_multiplier + 180 * signal) \div Scale, 750, 1250)

FeedbackKnownAlways(item_key, multipliers) == TRUE

\* the guard of apply_operator_feedback: item_key in _feedback_multiplier_by_item
FeedbackKnown(item_key, multipliers) == item_key \in DOMAIN multipliers

(***************************************************************************)
(* Urgency.  Ratios and thresholds are thousandths.                        *)
(***************************************************************************)
\* RECO_URGENCY_MEDIUM_SHORTFALL_RATIO and RECO_URGENCY_HIGH_SHORTFALL_RATIO
DefaultMediumRatio == 150
DefaultHighRatio == 350

\* __init__: both ratios clamped to [0, 1]; a high ratio below the medium one is
\* replaced by the medium one
UrgencyThresholds(configured_medium, configured_high) ==
    LET medium == Clamp(configured_medium, 0, Scale)
        high == Clamp(configured_high, 0, Scale)
    IN [medium |-> medium, high |-> IF high < medium THEN medium ELSE high]

UrgencyFromInventoryGapHighFirstOnly(demand_units, inventory_units, medium, high) ==
    LET shortfall_units == Max(0, Max(0, demand_units) - Max(0, inventory_units))
        ratio == IF demand_units <= 0 THEN 0
                 ELSE Clamp(DivMilli(shortfall_units, Max(1, demand_units)), 0, Scale)
    IN [urgency |-> IF ratio >= high THEN "high" ELSE "low",
        shortfall_units |-> shortfall_units, shortfall_ratio |-> ratio]

\* _urgency_from_inventory_gap
UrgencyFromInventoryGap(demand_units, inventory_units, medium, high) ==
    LET safe_projected_demand == Max(0, demand_units)
        safe_available_inventory == Max(0, inventory_units)
        shortfall_units == Max(0, safe_projected_demand - safe_available_inventory)
        shortfall_ratio ==
            Clamp(DivMilli(shortfall_units, Max(1, safe_projected_demand)), 0, Scale)
    IN IF safe_projected_demand <= 0
       THEN [urgency |-> "low", shortfall_units |-> shortfall_units, shortfall_ratio |-> 0]
       ELSE [urgency |-> IF shortfall_ratio >= high THEN "high"
                         ELSE IF shortfall_ratio >= medium THEN "medium"
                         ELSE "low",
             shortfall_units |-> shortfall_units, shortfall_ratio |-> shortfall_ratio]

\* an engine constructed with the two thresholds configured, and
\* _urgency_from_inventory_gap on two gaps; the method changes nothing
UrgencyProbe(configured_medium, configured_high, gaps) ==
    LET thresholds == UrgencyThresholds(configured_medium, configured_high)
        classified(gap) ==
            UrgencyFromInventoryGap(gap.demand_units, gap.inventory_units,
                                    thresholds.medium, thresholds.high)
    IN /\ urgency_probe' =
            [configured_medium |-> configured_medium,
             configured_high |-> configured_high,
             medium |-> thresholds.medium, high |-> thresholds.high,
             gaps |-> [i \in DOMAIN gaps |->
                          [demand_units |-> gaps[i].demand_units,
                           inventory_units |-> gaps[i].inventory_units,
                           urgency |-> classified(gaps[i]).urgency,
                           shortfall_ratio |-> classified(gaps[i]).shortfall_ratio]]]
       /\ UNCHANGED <<engineVars, dbVars, streamVars, lockVars, clock_probe>>

\* the inventory figures generate reports for one item: ready and fryer units
\* as the planner reads them
ItemInventoryReport(state) ==
    [ready_inventory_units |-> Max(0, RoundToNearestUnit(state.ready_units)),
     fryer_inventory_units |-> Max(0, FryerUnits(state))]

(***************************************************************************)
(* Observers.                                                              *)
(***************************************************************************)
NoResp ==
    [kind |-> "none", decision_due |-> FALSE, next_decision_in_sec |-> 0,
     effective_customers |-> 0, items |-> [k \in {} |-> 0]]

NoCommit(profiles) == [at |-> NoTime, units |-> [k \in DOMAIN profiles |-> 0]]

NoOscillation(profiles) ==
    [k \in DOMAIN profiles |->
        [seen |-> FALSE, reported |-> 0, at |-> 0, changes |-> 0, gap |-> 0]]

EmptyLedger(profiles) ==
    [k \in DOMAIN profiles |-> [committed |-> 0, promoted |-> 0, zero_demand |-> TRUE]]

\* Records the snapshot time at which the units reported for an item changed.
ObserveReport(osc, units, timestamp) ==
    IF ~osc.seen THEN [osc EXCEPT !.seen = TRUE, !.reported = units]
    ELSE IF osc.reported = units THEN osc
    ELSE [seen |-> TRUE, reported |-> units, at |-> timestamp,
          changes |-> osc.changes + 1,
          gap |-> IF osc.changes >= 1 THEN timestamp - osc.at ELSE 0]

Call(op, item_key, timestamp, customers, status, error) ==
    [op |-> op, item_key |-> item_key, timestamp |-> timestamp,
     customers |-> customers, status |-> status, error |-> error,
     stream_error |-> None, recommended_units |-> 0, chosen_units |-> 0]

(***************************************************************************)
(* RecommendationEngine operations.                                        *)
(***************************************************************************)
EngineInit ==
    /\ item_profiles = DefaultProfiles
    /\ history = <<>>
    /\ inventory = ResetInventoryState(DefaultProfiles)
    /\ last_inventory_timestamp = NoTime
    /\ last_decision_timestamp = NoTime
    /\ last_decision_by_item = ResetDecisionByItem(DefaultProfiles)
    /\ feedback_multiplier_by_item = ResetFeedbackMultiplier(DefaultProfiles)
    /\ feedback_events_by_item = ResetFeedbackEvents(DefaultProfiles)
    /\ business = DefaultBusiness
    /\ resp = NoResp
    /\ last_op = Call("init", "", NoTime, 0, "", "")
    /\ ops = 0
    /\ committed = NoCommit(DefaultProfiles)
    /\ oscillation = NoOscillation(DefaultProfiles)
    /\ fallback_seen = FALSE
    /\ ledger = EmptyLedger(DefaultProfiles)

CommitsLotAnyTick(decision_due, recommended_units) == recommended_units > 0

\* generate: if decision_due: ... if recommended_units > 0: fryer_lots.append(...)
CommitsLot(decision_due, recommended_units) == decision_due /\ recommended_units > 0

\* generate() on a snapshot whose stream_status is "ok", run on an engine whose
\* history, inventory and inventory baseline were h, inv and last_ts at line 551
GenerateHealthyFrom(h, inv, last_ts, snapshot) ==
    LET timestamp == snapshot.timestamp
        current_customers == snapshot.total_customers * Scale
        grown == HistoryAppend(h, [t |-> timestamp, c |-> current_customers])
        multipliers == EnsureFeedbackMultiplier(feedback_multiplier_by_item, item_profiles)
        events == EnsureFeedbackEvents(feedback_events_by_item, item_profiles)
        effective_customers == ProjectedCustomers(grown, current_customers)
        ensured == EnsureInventoryState(inv, item_profiles)
        advanced == AdvanceInventory(inv, item_profiles,
                                     last_ts, timestamp, current_customers)
        held == EnsureDecisionByItem(last_decision_by_item, item_profiles)
        clock == DecisionDue(last_decision_timestamp, timestamp)
        target(k) == TargetUnits(effective_customers, item_profiles[k], multipliers[k])
        recommended(k) ==
            RecommendedUnits(clock.due, held[k], target(k), item_profiles[k].max_unit_size)
        report(k) == ItemInventoryReport(advanced[k])
        ran == AdvanceRuns(last_ts, timestamp)
    IN /\ snapshot.stream_status = "ok"
       /\ history' = grown
       /\ feedback_multiplier_by_item' = multipliers
       /\ feedback_events_by_item' = events
       /\ inventory' =
            [k \in DOMAIN item_profiles |->
                IF CommitsLot(clock.due, recommended(k))
                THEN [advanced[k] EXCEPT !.fryer_lots =
                        Append(@, [units |-> recommended(k),
                                   ready_at |-> timestamp + cook_time_sec])]
                ELSE advanced[k]]
       /\ last_inventory_timestamp' = AdvanceTimestamp(last_ts, timestamp)
       /\ last_decision_by_item' =
            IF clock.due THEN [k \in DOMAIN item_profiles |-> recommended(k)] ELSE held
       /\ last_decision_timestamp' =
            IF clock.due THEN timestamp ELSE last_decision_timestamp
       /\ resp' =
            [kind |-> "ok", decision_due |-> clock.due,
             next_decision_in_sec |-> clock.remaining,
             effective_customers |-> effective_customers,
             queue_state |-> StateFromTrend(TrendPerMin(grown)),
             trend_customers_per_min |-> TrendPerMin(grown),
             current_customers |-> current_customers,
             projected_customers |-> effective_customers,
             items |-> [k \in DOMAIN item_profiles |->
                 LET reported == report(k)
                 IN [recommended_units |-> recommended(k),
                     target_units |-> target(k),
                     max_unit_size |-> item_profiles[k].max_unit_size,
                     units_per_order |-> item_profiles[k].units_per_order,
                     feedback_multiplier |-> multipliers[k],
                     ready_inventory_units |-> reported.ready_inventory_units,
                     fryer_inventory_units |-> reported.fryer_inventory_units]]]
       /\ last_op' = Call("generate", "", timestamp, snapshot.total_customers, "ok", "")
       /\ ops' = ops + 1
       /\ committed' =
            IF clock.due
            THEN [at |-> timestamp,
                  units |-> [k \in DOMAIN item_profiles |-> recommended(k)]]
            ELSE committed
       /\ oscillation' =
            [k \in DOMAIN item_profiles |->
                ObserveReport(oscillation[k], recommended(k), timestamp)]
       /\ ledger' =
            [k \in DOMAIN item_profiles |->
                [committed |-> ledger[k].committed
                                 + (IF CommitsLot(clock.due, recommended(k))
                                    THEN recommended(k) ELSE 0),
                 promoted |-> ledger[k].promoted
                                 + FryerUnits(ensured[k]) - FryerUnits(advanced[k]),
                 zero_demand |-> ledger[k].zero_demand
                                 /\ (ran => ConsumedUnits(current_customers, item_profiles[k],
                                              Max(0, timestamp - last_ts)) = 0)]]
       /\ UNCHANGED <<item_profiles, business, fallback_seen>>

\* generate() on a snapshot whose stream_status is "ok"
GenerateHealthy(snapshot) ==
    GenerateHealthyFrom(history, inventory, last_inventory_timestamp, snapshot)

FallbackCustomersProjected(h, current_customers) ==
    ProjectedCustomers(h, current_customers)

\* _build_unavailable_response: effective_customers = max(0.0, current_customers)
FallbackCustomers(h, current_customers) == Max(0, current_customers)

\* snapshot.get("stream_error"), as str(...) if truthy else None
StreamError(snapshot) ==
    IF "stream_error" \in DOMAIN snapshot /\ snapshot.stream_error # ""
    THEN Some(snapshot.stream_error)
    ELSE None

\* generate() on any other snapshot: _build_unavailable_response
GenerateUnavailable(snapshot) ==
    LET current_customers == snapshot.total_customers * Scale
        effective_customers == FallbackCustomers(history, current_customers)
        multipliers == EnsureFeedbackMultiplier(feedback_multiplier_by_item, item_profiles)
        events == EnsureFeedbackEvents(feedback_events_by_item, item_profiles)
        recommended(k) == TargetUnits(effective_customers, item_profiles[k], multipliers[k])
        ensured == EnsureInventoryState(inventory, item_profiles)
        report(k) == ItemInventoryReport(ensured[k])
    IN /\ snapshot.stream_status # "ok"
       /\ feedback_multiplier_by_item' = multipliers
       /\ feedback_events_by_item' = events
       /\ inventory' = ensured
       /\ last_decision_by_item' = EnsureDecisionByItem(last_decision_by_item, item_profiles)
       /\ resp' =
            [kind |-> "unavailable", decision_due |-> FALSE, next_decision_in_sec |-> 0,
             effective_customers |-> effective_customers,
             queue_state |-> "unavailable",
             trend_customers_per_min |-> 0,
             current_customers |-> current_customers,
             projected_customers |-> current_customers,
             confidence |-> 450,
             stream_issue_note |-> StreamError(snapshot),
             items |-> [k \in DOMAIN item_profiles |->
                 LET reported == report(k)
                 IN [recommended_units |-> recommended(k),
                     target_units |-> recommended(k),
                     max_unit_size |-> item_profiles[k].max_unit_size,
                     units_per_order |-> item_profiles[k].units_per_order,
                     feedback_multiplier |-> multipliers[k],
                     ready_inventory_units |-> reported.ready_inventory_units,
                     fryer_inventory_units |-> reported.fryer_inventory_units]]]
       /\ last_op' = [Call("generate", "", snapshot.timestamp, snapshot.total_customers,
                           snapshot.stream_status, "")
                         EXCEPT !.stream_error = StreamError(snapshot)]
       /\ ops' = ops + 1
       /\ oscillation' =
            [k \in DOMAIN item_profiles |->
                ObserveReport(oscillation[k], recommended(k), snapshot.timestamp)]
       /\ fallback_seen' = TRUE
       /\ UNCHANGED <<item_profiles, business, history, last_inventory_timestamp,
                      last_decision_timestamp, committed, ledger>>

\* apply_operator_feedback
ApplyOperatorFeedback(item_key, action, recommended_units, chosen_units) ==
    LET multipliers == EnsureFeedbackMultiplier(feedback_multiplier_by_item, item_profiles)
        events == EnsureFeedbackEvents(feedback_events_by_item, item_profiles)
        prior_multiplier == IF item_key \in DOMAIN multipliers
                            THEN multipliers[item_key] ELSE Scale
        prior_events == IF item_key \in DOMAIN events THEN events[item_key] ELSE 0
        updated_multiplier ==
            UpdatedMultiplier(prior_multiplier,
                              FeedbackSignal(action, recommended_units, chosen_units))
    IN /\ IF FeedbackKnown(item_key, multipliers)
          THEN /\ feedback_multiplier_by_item' =
                    [k \in DOMAIN multipliers \cup {item_key} |->
                        IF k = item_key THEN updated_multiplier ELSE multipliers[k]]
               /\ feedback_events_by_item' =
                    [k \in DOMAIN events \cup {item_key} |->
                        IF k = item_key THEN prior_events + 1 ELSE events[k]]
               /\ last_op' = [Call("feedback", item_key, NoTime, 0, action, "")
                                 EXCEPT !.recommended_units = recommended_units,
                                        !.chosen_units = chosen_units]
          ELSE /\ feedback_multiplier_by_item' = multipliers
               /\ feedback_events_by_item' = events
               /\ last_op' = [Call("feedback", item_key, NoTime, 0, action, "unknown_item")
                                 EXCEPT !.recommended_units = recommended_units,
                                        !.chosen_units = chosen_units]
       /\ ops' = ops + 1
       /\ UNCHANGED <<item_profiles, business, history, inventory,
                      last_inventory_timestamp,
                      last_decision_timestamp, last_decision_by_item, resp,
                      committed, oscillation, fallback_seen, ledger>>

\* The keyword arguments of configure_business_profile.  avg_ticket_usd is
\* Some(thousandths), or None for a value float() rejects; item_profiles is
\* Some(catalog), or None for a value tuple() rejects.
BusinessProfile(name, type, location, service_model, ticket, profiles) ==
    [business_name |-> name, business_type |-> type,
     location |-> location, service_model |-> service_model,
     avg_ticket_usd |-> ticket, item_profiles |-> profiles]

\* a call that names no business field, repeats the default ticket, and sets a catalog
Recatalog(profiles) ==
    BusinessProfile("", "", "", "", Some(DefaultBusiness.avg_ticket_usd), Some(profiles))

\* str.strip() on the texts the model feeds in
Strip(text) == IF text = " " THEN "" ELSE text

\* configure_business_profile: value.strip() or self.<field>, for the four texts
BusinessNamed(b, payload) ==
    [b EXCEPT
       !.business_name = IF Strip(payload.business_name) # ""
                         THEN Strip(payload.business_name) ELSE @,
       !.business_type = IF Strip(payload.business_type) # ""
                         THEN Strip(payload.business_type) ELSE @,
       !.location = IF Strip(payload.location) # "" THEN Strip(payload.location) ELSE @,
       !.service_model = IF Strip(payload.service_model) # ""
                         THEN Strip(payload.service_model) ELSE @]

\* configure_business_profile: the statements run in order, and an exception
\* leaves the assignments made before it in place
ConfigureBusinessProfile(payload) ==
    LET named == BusinessNamed(business, payload)
        failed(error) ==
            /\ last_op' = Call("configure", "", NoTime, 0, "", error)
            /\ ops' = ops + 1
            /\ UNCHANGED <<item_profiles, history, inventory, last_inventory_timestamp,
                           last_decision_timestamp, last_decision_by_item,
                           feedback_multiplier_by_item, feedback_events_by_item,
                           resp, committed, oscillation, fallback_seen, ledger>>
    IN IF payload.avg_ticket_usd = None
       THEN /\ business' = named
            /\ failed("float")
       ELSE LET ticketed == [named EXCEPT
                               !.avg_ticket_usd = Max(10, payload.avg_ticket_usd[1])]
            IN IF payload.item_profiles = None
               THEN /\ business' = ticketed
                    /\ failed("tuple")
               ELSE LET profiles == payload.item_profiles[1]
                    IN /\ business' = ticketed
                       /\ item_profiles' = profiles
                       /\ inventory' = ResetInventoryState(profiles)
                       /\ last_decision_by_item' = ResetDecisionByItem(profiles)
                       /\ last_inventory_timestamp' = NoTime
                       /\ last_decision_timestamp' = NoTime
                       /\ feedback_multiplier_by_item' = ResetFeedbackMultiplier(profiles)
                       /\ feedback_events_by_item' = ResetFeedbackEvents(profiles)
                       /\ last_op' = Call("configure", "", NoTime, 0, "", "")
                       /\ ops' = ops + 1
                       /\ committed' = NoCommit(profiles)
                       /\ oscillation' = NoOscillation(profiles)
                       /\ fallback_seen' = FALSE
                       /\ ledger' = EmptyLedger(profiles)
                       /\ UNCHANGED <<history, resp>>

(***************************************************************************)
(* AnalyticsStore: timestamps.  A stored timestamp is ISO-8601 TEXT; the   *)
(* model keeps the whole second, whether fractional digits follow (half a  *)
(* second), and how the text ends: "Z", "+00:00", nothing ("naive"), or    *)
(* text that is no timestamp at all ("garbage").                           *)
(***************************************************************************)

IsoText(sec, half, zone) == [sec |-> sec, half |-> half, zone |-> zone]

DateTime(sec, half, aware) == [sec |-> sec, half |-> half, aware |-> aware]

\* _utc_iso_now
UtcIsoNow(now) == IsoText(now, FALSE, "Z")

\* _parse_iso_timestamp: text that does not parse reads as the current time
ParseIsoTimestamp(text, now) ==
    IF text.zone = "garbage" THEN DateTime(now, FALSE, TRUE)
    ELSE DateTime(text.sec, text.half, text.zone # "naive")

\* datetime.isoformat().replace("+00:00", "Z")
IsoFormatZ(dt) == IsoText(dt.sec, dt.half, IF dt.aware THEN "Z" ELSE "naive")

\* Position of the text after the seconds field in byte order:
\* "" < "+00:00" < ".500000" < ".500000+00:00" < ".500000Z" < "Z"
TextTailRank(text) ==
    IF text.zone = "naive" THEN (IF text.half THEN 2 ELSE 0)
    ELSE IF text.zone = "+00:00" THEN (IF text.half THEN 3 ELSE 1)
    ELSE (IF text.half THEN 4 ELSE 5)

\* SQLite's <= on two TEXT timestamps of the same day: byte-wise comparison
IsoTextLeq(a, b) ==
    \/ a.sec < b.sec
    \/ a.sec = b.sec /\ TextTailRank(a) <= TextTailRank(b)

\* datetime < datetime; comparing an aware with a naive datetime raises TypeError
DateTimeComparable(a, b) == a.aware = b.aware

DateTimeLessWholeSeconds(a, b) == a.sec < b.sec

DateTimeLess(a, b) ==
    \/ a.sec < b.sec
    \/ a.sec = b.sec /\ ~a.half /\ b.half

(***************************************************************************)
(* AnalyticsStore: the outcome evaluator.                                  *)
(***************************************************************************)
\* Python's round() on a non-negative float: ties go to the even integer
RoundHalfEven(units) ==
    LET whole == units \div Scale
        part == units % Scale
    IN IF part < Scale \div 2 THEN whole
       ELSE IF part > Scale \div 2 THEN whole + 1
       ELSE IF whole % 2 = 0 THEN whole ELSE whole + 1

\* feedback_timestamp + timedelta(minutes=max(0.5, forecast_horizon_min))
EvaluationCutoff(row, now) ==
    LET feedback_timestamp == ParseIsoTimestamp(row.timestamp, now)
        horizon_min == Max(Scale \div 2, row.forecast_horizon_min)
    IN DateTime(feedback_timestamp.sec + (horizon_min * 60) \div Scale,
                feedback_timestamp.half, feedback_timestamp.aware)

\* the rows of analytics_samples the evaluator's SELECT aggregates for a record
QualifyingSamples(row, table, now) ==
    LET start_iso == IsoFormatZ(ParseIsoTimestamp(row.timestamp, now))
        end_iso == IsoFormatZ(EvaluationCutoff(row, now))
    IN { i \in 1..Len(table) :
            /\ IsoTextLeq(start_iso, table[i].timestamp)
            /\ IsoTextLeq(table[i].timestamp, end_iso)
            /\ table[i].stream_status \in {"ok", "degraded"} }

RECURSIVE SumCustomers(_, _)
SumCustomers(ids, table) ==
    IF ids = {} THEN 0
    ELSE LET i == CHOOSE j \in ids : TRUE
         IN table[i].total_customers + SumCustomers(ids \ {i}, table)

RevenueDeltaPerUnit(shortfall_delta_units, units_per_order, avg_ticket_usd) ==
    shortfall_delta_units * avg_ticket_usd

\* (shortfall_delta_units / units_per_order) * avg_ticket_usd
RevenueDelta(shortfall_delta_units, units_per_order, avg_ticket_usd) ==
    LET magnitude == IF shortfall_delta_units < 0
                     THEN 0 - shortfall_delta_units ELSE shortfall_delta_units
        orders == (magnitude * Scale * Scale) \div units_per_order
        usd == MulMilli(orders, avg_ticket_usd)
    IN IF shortfall_delta_units < 0 THEN 0 - usd ELSE usd

MarkInsufficientZeroed(row, now) ==
    [row EXCEPT !.outcome_status = "insufficient_data",
                !.evaluated_at = Some(UtcIsoNow(now)),
                !.actual_customers = Some(0)]

\* the UPDATE ... SET outcome_status = 'insufficient_data'
MarkInsufficient(row, now) ==
    [row EXCEPT !.outcome_status = "insufficient_data",
                !.evaluated_at = Some(UtcIsoNow(now))]

\* the UPDATE ... SET outcome_status = 'evaluated'
MarkEvaluated(row, ids, table, now) ==
    LET actual_customers == SumCustomers(ids, table) \div Cardinality(ids)
        units_per_order == Max(10, row.units_per_order)
        unit_cost_usd == Max(0, row.unit_cost_usd)
        avg_ticket_usd == Max(0, row.avg_ticket_usd)
        baseline_units == Max(0, row.baseline_units)
        chosen_units == Max(0, row.chosen_units)
        required_units ==
            Max(0, RoundHalfEven(MulMilli(actual_customers, units_per_order)))
        realized_waste_delta_units ==
            Max(0, baseline_units - required_units) - Max(0, chosen_units - required_units)
        shortfall_delta_units ==
            Max(0, required_units - baseline_units) - Max(0, required_units - chosen_units)
    IN [row EXCEPT
          !.outcome_status = "evaluated",
          !.evaluated_at = Some(UtcIsoNow(now)),
          !.actual_customers = Some(actual_customers),
          !.forecast_error_customers = Some(actual_customers - row.projected_customers),
          !.realized_waste_delta_units = Some(realized_waste_delta_units),
          !.realized_cost_delta_usd = Some(realized_waste_delta_units * unit_cost_usd),
          !.realized_revenue_delta_usd =
              Some(RevenueDelta(shortfall_delta_units, units_per_order, avg_ticket_usd))]

\* the body of the evaluator's loop for one selected record
EvaluateRow(row, table, now) ==
    IF DateTimeLess(DateTime(now, FALSE, TRUE), EvaluationCutoff(row, now)) THEN row
    ELSE LET ids == QualifyingSamples(row, table, now)
         IN IF Cardinality(ids) <= 0 THEN MarkInsufficient(row, now)
            ELSE MarkEvaluated(row, ids, table, now)

RECURSIVE FirstIds(_, _)
FirstIds(ids, n) ==
    IF n <= 0 \/ ids = {} THEN {}
    ELSE LET low == CHOOSE i \in ids : \A j \in ids : i <= j
         IN {low} \cup FirstIds(ids \ {low}, n - 1)

SelectedAnyStatus(rows) == FirstIds(DOMAIN rows, SweepLimit)

\* SELECT ... WHERE outcome_status = 'pending' ORDER BY id ASC LIMIT 1000
SelectedPending(rows) ==
    FirstIds({ i \in DOMAIN rows : rows[i].outcome_status = "pending" }, SweepLimit)

\* The sweep raises TypeError on a selected record whose timestamp has no zone.
SweepRaises(rows, now) ==
    \E i \in SelectedPending(rows) :
        ~DateTimeComparable(DateTime(now, FALSE, TRUE), EvaluationCutoff(rows[i], now))

\* _evaluate_feedback_outcomes: the table the sweep commits
EvaluateFeedbackOutcomes(rows, table, now) ==
    LET selected == SelectedPending(rows)
    IN [i \in DOMAIN rows |->
          IF i \in selected THEN EvaluateRow(rows[i], table, now) ELSE rows[i]]

(***************************************************************************)
(* AnalyticsStore: feedback operations.                                    *)
(***************************************************************************)
\* record_feedback: the payload it stores, every quantity bounded as the code does
FeedbackPayload(input, now) ==
    LET bounded_max == Max(1, input.max_unit_size)
        bounded_chosen == Min(Max(0, input.chosen_units), bounded_max)
        bounded_baseline == Min(Max(0, input.baseline_units), bounded_max)
        expected_waste_avoided_units == Max(0, bounded_baseline - bounded_chosen)
    IN [timestamp |-> IF input.timestamp = None THEN UtcIsoNow(now)
                      ELSE input.timestamp[1],
        item_key |-> input.item_key,
        action |-> input.action,
        recommended_units |-> Min(Max(0, input.recommended_units), bounded_max),
        chosen_units |-> bounded_chosen,
        baseline_units |-> bounded_baseline,
        max_unit_size |-> bounded_max,
        unit_cost_usd |-> Max(0, input.unit_cost_usd),
        units_per_order |-> Max(10, input.units_per_order),
        forecast_horizon_min |-> Max(Scale \div 2, input.forecast_horizon_min),
        projected_customers |-> Max(0, input.projected_customers),
        avg_ticket_usd |-> Max(0, input.avg_ticket_usd),
        expected_cost_saved_usd |-> expected_waste_avoided_units * Max(0, input.unit_cost_usd),
        expected_waste_avoided_units |-> expected_waste_avoided_units,
        outcome_status |-> "pending",
        evaluated_at |-> None,
        actual_customers |-> None,
        forecast_error_customers |-> None,
        realized_waste_delta_units |-> None,
        realized_cost_delta_usd |-> None,
        realized_revenue_delta_usd |-> None]

StoreCall(op, error) == [op |-> op, error |-> error]

\* Observer: the sweep that has just committed, and the rows it moved out of pending.
ObserveSweep(before, after) ==
    [count |-> sweeps.count + 1,
     left_pending_in |->
        [i \in DOMAIN after |->
            IF i \notin DOMAIN before THEN 0
            ELSE IF before[i].outcome_status = "pending"
                    /\ after[i].outcome_status # "pending"
                 THEN sweeps.count + 1
                 ELSE sweeps.left_pending_in[i]]]

StoreInitDb(table) ==
    /\ samples = table
    /\ feedback_rows = <<>>
    /\ wall_now = 0
    /\ store_op = StoreCall("init", "")
    /\ store_ops = 0
    /\ sweeps = [count |-> 0, left_pending_in |-> <<>>]

\* record_feedback; failure names the statement at which the storage raises
RecordFeedback(input, failure) ==
    LET swept == EvaluateFeedbackOutcomes(feedback_rows, samples, wall_now)
        inserted == Append(swept, FeedbackPayload(input, wall_now))
    IN /\ store_ops' = store_ops + 1
       /\ IF failure = "sweep" \/ SweepRaises(feedback_rows, wall_now)
          THEN /\ store_op' = StoreCall("record_feedback", "sweep_failed")
               /\ UNCHANGED <<feedback_rows, sweeps>>
          ELSE IF failure = "insert"
          THEN /\ store_op' = StoreCall("record_feedback", "insert_failed")
               /\ feedback_rows' = swept
               /\ sweeps' = ObserveSweep(feedback_rows, swept)
          ELSE /\ store_op' = StoreCall("record_feedback", "")
               /\ feedback_rows' = inserted
               /\ sweeps' = ObserveSweep(feedback_rows, inserted)
       /\ UNCHANGED <<samples, wall_now>>

\* get_feedback_summary: the sweep it runs before reading
GetFeedbackSummary(failure) ==
    LET swept == EvaluateFeedbackOutcomes(feedback_rows, samples, wall_now)
    IN /\ store_ops' = store_ops + 1
       /\ IF failure = "sweep" \/ SweepRaises(feedback_rows, wall_now)
          THEN /\ store_op' = StoreCall("get_feedback_summary", "sweep_failed")
               /\ UNCHANGED <<feedback_rows, sweeps>>
          ELSE /\ store_op' = StoreCall("get_feedback_summary", "")
               /\ feedback_rows' = swept
               /\ sweeps' = ObserveSweep(feedback_rows, swept)
       /\ UNCHANGED <<samples, wall_now>>

\* the wall clock moves on
WallClockTick(step_sec) ==
    /\ wall_now' = wall_now + step_sec
    /\ UNCHANGED <<samples, feedback_rows, store_op, store_ops, sweeps>>

(***************************************************************************)
(* AnalyticsStore: the sampler thread and the in-memory broadcaster.       *)
(* Monotonic time is kept as per-subscriber timers, in tenths of a second. *)
(***************************************************************************)
\* _build_point, and the id _insert_point returns for it
Point(id, sample) ==
    [id |-> id, timestamp |-> sample.timestamp,
     stream_status |-> sample.stream_status,
     total_customers |-> sample.total_customers]

\* deque(maxlen=memory_points).append
RingAppend(ring, point) ==
    LET grown == Append(ring, point)
    IN IF Len(grown) > MemoryPoints THEN Tail(grown) ELSE grown

\* _hydrate_memory_cache: the newest memory_points rows, oldest first
Hydrated(table) ==
    LET n == Len(table)
    IN SubSeq(table, Max(1, n - MemoryPoints + 1), n)

HydratedLatestIdUnset(table) == 0

\* _hydrate_memory_cache: _latest_id, set when any row was loaded
HydratedLatestId(table) ==
    IF Hydrated(table) = <<>> THEN 0 ELSE Hydrated(table)[Len(Hydrated(table))].id

RECURSIVE FirstAfterNewest(_, _)
FirstAfterNewest(ring, point_id) ==
    IF ring = <<>> THEN None
    ELSE IF ring[Len(ring)].id > point_id THEN Some(ring[Len(ring)])
    ELSE FirstAfterNewest(SubSeq(ring, 1, Len(ring) - 1), point_id)

\* for point in self._history: if point["id"] > point_id: return dict(point)
RECURSIVE FirstAfter(_, _)
FirstAfter(ring, point_id) ==
    IF ring = <<>> THEN None
    ELSE IF Head(ring).id > point_id THEN Some(Head(ring))
    ELSE FirstAfter(Tail(ring), point_id)

\* deadline = time.monotonic() + max(0.1, timeout_sec), as time left
WaitBudget(timeout_tenths) == Max(MinWaitTenths, timeout_tenths)

RemainingRestarted(left) == WaitBudget(StreamTimeoutTenths)

\* remaining = deadline - time.monotonic()
Remaining(left) == left

\* One stream_events generator: its position, its cursor, the time left to its
\* deadline, and observers of what it did (last_wait, last_yield, waited, delivered).
Subscriber(pc, start, cursor, remaining, notified, point, last_yield, waited, delivered) ==
    [pc |-> pc, start |-> start, cursor |-> cursor, remaining |-> remaining,
     notified |-> notified, point |-> point, last_yield |-> last_yield,
     last_wait |-> "none", waited |-> waited, delivered |-> delivered]

InWait(sub) == sub.pc \in {"call", "waiting"}

\* The _run thread: where it is, the point it built and inserted, what the
\* provider returned for it, and the exception its handler has caught.
SamplerAt(pc, point, provided) ==
    [pc |-> pc, point |-> point, provided |-> provided, error |-> ""]

\* provider(): the metrics snapshot and the recommendation payload of one tick
Metrics(sample) ==
    [timestamp |-> sample.timestamp, stream_status |-> sample.stream_status,
     total_customers |-> sample.total_customers]

Recommendation(sample) == [projected_customers |-> sample.projected_customers]

InsertSucceededAlways(outcome) == TRUE

\* the try block of _run ran to its end: neither provider() nor _insert_point raised
InsertSucceeded(outcome) == outcome = "ok"

StoreInitMemory(table, readers) ==
    /\ store_history = Hydrated(table)
    /\ latest_id = HydratedLatestId(table)
    /\ latest_metrics = None
    /\ latest_recommendation = None
    /\ stop_event = FALSE
    /\ sampler = SamplerAt("none", None, None)
    /\ subs = [s \in readers |->
                 Subscriber("idle", 0, 0, 0, FALSE, None, "none", 0, <<>>)]

LoopRunsRegardless(stop_is_set) == TRUE

\* while not self._stop_event.is_set(): the test of _run and of stream_events
LoopRuns(stop_is_set) == ~stop_is_set

\* start
Start ==
    /\ IF sampler.pc \in {"none", "done"}
       THEN /\ stop_event' = FALSE
            /\ sampler' = SamplerAt("idle", None, None)
       ELSE UNCHANGED <<stop_event, sampler>>
    /\ UNCHANGED <<store_history, latest_id, latest_metrics, latest_recommendation,
                      subs, dbVars>>

\* stop
Stop ==
    /\ stop_event' = TRUE
    /\ UNCHANGED <<store_history, latest_id, latest_metrics, latest_recommendation,
                      sampler, subs, dbVars>>

\* _run, from the loop test to the end of the try block, or into the except
\* handler; outcome tells whether the provider or the durable append raised
SamplerSample(sample, outcome) ==
    LET point == Point(Len(samples) + 1, sample)
    IN /\ sampler.pc = "idle"
       /\ IF ~LoopRuns(stop_event)
          THEN /\ sampler' = SamplerAt("done", None, None)
               /\ UNCHANGED samples
          ELSE /\ samples' = IF outcome = "ok" THEN Append(samples, point) ELSE samples
               /\ sampler' = IF InsertSucceeded(outcome)
                              THEN SamplerAt("inserted", Some(point), Some(sample))
                              ELSE [SamplerAt("failed", None, None)
                                       EXCEPT !.error = outcome]
       /\ UNCHANGED <<feedback_rows, wall_now, store_op, store_ops, sweeps>>
       /\ UNCHANGED <<store_history, latest_id, latest_metrics, latest_recommendation,
                      stop_event, subs>>

HandlerNextReraises(error) == "done"

\* _run: where the except handler leaves the thread: continue, to the loop test
HandlerNext(error) == "idle"

\* _run: the except handler has logged the exception and waited; the record keeps
\* the logged error until the next tick
SamplerBackoff ==
    /\ sampler.pc = "failed"
    /\ sampler' = [SamplerAt(HandlerNext(sampler.error), None, None)
                     EXCEPT !.error = sampler.error]
    /\ UNCHANGED <<store_history, latest_id, latest_metrics, latest_recommendation,
                   stop_event, subs, dbVars>>

NotifyNone(readers) == readers

\* self._condition.notify_all(): every reader blocked in wait() is woken
NotifyAll(readers) ==
    [s \in DOMAIN readers |->
        IF readers[s].pc = "waiting" THEN [readers[s] EXCEPT !.notified = TRUE]
        ELSE readers[s]]

\* _run: with self._condition: append, _latest_id = row_id, latest metrics and
\* recommendation, notify_all
SamplerPublish ==
    /\ sampler.pc = "inserted"
    /\ store_history' = RingAppend(store_history, sampler.point[1])
    /\ latest_id' = sampler.point[1].id
    /\ latest_metrics' = Some(Metrics(sampler.provided[1]))
    /\ latest_recommendation' = Some(Recommendation(sampler.provided[1]))
    /\ subs' = NotifyAll(subs)
    /\ sampler' = SamplerAt("idle", None, None)
    /\ UNCHANGED <<stop_event, dbVars>>

\* stream_events is called: cursor = max(0, int(last_id))
Subscribe(s, last_id) ==
    /\ subs[s].pc = "idle"
    /\ subs' = [subs EXCEPT ![s] =
                  Subscriber("loop", Max(0, last_id), Max(0, last_id), 0, FALSE,
                             None, "none", 0, <<>>)]
    /\ UNCHANGED <<store_history, latest_id, latest_metrics, latest_recommendation,
                      stop_event, sampler, dbVars>>

\* stream_events: the loop test, then the call of _wait_for_point_after
SubscriberLoop(s) ==
    /\ subs[s].pc = "loop"
    /\ subs' = [subs EXCEPT ![s] =
                  IF ~LoopRuns(stop_event) THEN [@ EXCEPT !.pc = "done"]
                  ELSE [@ EXCEPT !.pc = "call",
                                 !.remaining = WaitBudget(StreamTimeoutTenths),
                                 !.notified = FALSE, !.point = None, !.waited = 0]]
    /\ UNCHANGED <<store_history, latest_id, latest_metrics, latest_recommendation,
                      stop_event, sampler, dbVars>>

\* _wait_for_point_after under the condition's lock: from acquiring it (on entry,
\* or on waking from wait) to releasing it (by waiting again, or by returning)
SubscriberCheck(s) ==
    LET sub == subs[s]
        remaining == Remaining(sub.remaining)
    IN /\ \/ sub.pc = "call"
          \/ sub.pc = "waiting" /\ (sub.notified \/ sub.remaining <= 0)
       /\ subs' = [subs EXCEPT ![s] =
            IF latest_id <= sub.cursor /\ ~stop_event
            THEN IF remaining <= 0
                 THEN [@ EXCEPT !.pc = "got", !.point = None, !.last_wait = "timeout"]
                 ELSE [@ EXCEPT !.pc = "waiting", !.notified = FALSE,
                                !.remaining = remaining]
            ELSE IF latest_id <= sub.cursor
                 THEN [@ EXCEPT !.pc = "got", !.point = None, !.last_wait = "stopped"]
                 ELSE [@ EXCEPT !.pc = "got", !.last_wait = "point",
                                !.point = FirstAfter(store_history, sub.cursor)]]
       /\ UNCHANGED <<store_history, latest_id, latest_metrics, latest_recommendation,
                      stop_event, sampler, dbVars>>

\* stream_events: what it yields for the value the wait returned
SubscriberYield(s) ==
    LET sub == subs[s]
    IN /\ sub.pc = "got"
       /\ subs' = [subs EXCEPT ![s] =
            IF sub.point = None
            THEN [@ EXCEPT !.pc = "loop", !.last_yield = "keepalive"]
            ELSE [@ EXCEPT !.pc = "loop", !.last_yield = "event",
                           !.cursor = sub.point[1].id,
                           !.delivered = Append(@, sub.point[1].id),
                           !.point = None]]
       /\ UNCHANGED <<store_history, latest_id, latest_metrics, latest_recommendation,
                      stop_event, sampler, dbVars>>

\* Monotonic time passes, at most up to the earliest deadline of a waiting reader.
Tick ==
    LET timers == { subs[s].remaining : s \in { t \in DOMAIN subs : InWait(subs[t]) } }
        step == IF timers = {} THEN TickTenths
                ELSE Min(TickTenths, CHOOSE r \in timers : \A q \in timers : r <= q)
    IN /\ \A s \in DOMAIN subs : InWait(subs[s]) => subs[s].remaining > 0
       /\ subs' = [s \in DOMAIN subs |->
                     IF InWait(subs[s])
                     THEN [subs[s] EXCEPT !.remaining = @ - step, !.waited = @ + step]
                     ELSE subs[s]]
       /\ UNCHANGED <<store_history, latest_id, latest_metrics, latest_recommendation,
                      stop_event, sampler, dbVars>>

\* AnalyticsStore.__init__ on a database holding the given samples; readers are
\* the clients that may later open a live subscription
StoreInit(table, readers) ==
    /\ StoreInitDb(table)
    /\ StoreInitMemory(table, readers)

(***************************************************************************)
(* The service's threads and the lock they take around every engine call.  *)
(***************************************************************************)
Threads == {"sampler", "api"}

IdleThread == [pc |-> "idle", snapshot |-> None, saved |-> None]

\* the threads of the running service: the sampler (_run), a request handler,
\* a live subscription
Workers == {"sampler", "api", "stream"}

IdleWorker == [held |-> <<>>, todo |-> <<>>]

ServiceInit ==
    /\ reco_lock = "free"
    /\ threads = [t \in Threads |-> IdleThread]
    /\ db_lock = "free"
    /\ history_lock = "free"
    /\ workers = [t \in Workers |-> IdleWorker]

LockFreeAlways == TRUE

\* with reco_lock: the lock can be taken
LockFree == reco_lock = "free"

\* _generate_recommendations on a healthy snapshot, from taking the lock to the
\* return of _advance_inventory: history appended, feedback maps ensured,
\* inventory advanced; the planning loop has not started
GenerateAdvance(t, snapshot) ==
    LET timestamp == snapshot.timestamp
        current_customers == snapshot.total_customers * Scale
    IN /\ threads[t].pc = "idle"
       /\ LockFree
       /\ snapshot.stream_status = "ok"
       /\ reco_lock' = t
       /\ UNCHANGED <<db_lock, history_lock, workers>>
       /\ threads' = [threads EXCEPT ![t] =
             [pc |-> "advanced", snapshot |-> Some(snapshot),
              saved |-> Some([history |-> history, inventory |-> inventory,
                              last_inventory_timestamp |-> last_inventory_timestamp])]]
       /\ history' = HistoryAppend(history, [t |-> timestamp, c |-> current_customers])
       /\ feedback_multiplier_by_item' =
            EnsureFeedbackMultiplier(feedback_multiplier_by_item, item_profiles)
       /\ feedback_events_by_item' =
            EnsureFeedbackEvents(feedback_events_by_item, item_profiles)
       /\ inventory' = AdvanceInventory(inventory, item_profiles,
                                        last_inventory_timestamp, timestamp, current_customers)
       /\ last_inventory_timestamp' = AdvanceTimestamp(last_inventory_timestamp, timestamp)
       /\ last_decision_by_item' = EnsureDecisionByItem(last_decision_by_item, item_profiles)
       /\ UNCHANGED <<item_profiles, business, last_decision_timestamp, resp, last_op, ops,
                      committed, oscillation, fallback_seen, ledger>>

\* the rest of generate (the planning loop and the decision clock), the return,
\* and the release of the lock
GeneratePlan(t) ==
    LET saved == threads[t].saved[1]
    IN /\ threads[t].pc = "advanced"
       /\ GenerateHealthyFrom(saved.history, saved.inventory,
                              saved.last_inventory_timestamp, threads[t].snapshot[1])
       /\ reco_lock' = "free"
       /\ threads' = [threads EXCEPT ![t] = IdleThread]
       /\ UNCHANGED <<db_lock, history_lock, workers>>

\* _generate_recommendations on a degraded or error snapshot, under the lock
LockedGenerateUnavailable(t, snapshot) ==
    /\ threads[t].pc = "idle"
    /\ LockFree
    /\ GenerateUnavailable(snapshot)
    /\ UNCHANGED lockVars

\* update_business_profile: with reco_lock: configure_business_profile
LockedConfigure(t, profiles) ==
    /\ threads[t].pc = "idle"
    /\ LockFree
    /\ ConfigureBusinessProfile(Recatalog(profiles))
    /\ UNCHANGED lockVars

\* the feedback handler: apply_operator_feedback under the engine's mutex
LockedFeedback(t, f) ==
    /\ threads[t].pc = "idle"
    /\ LockFree
    /\ ApplyOperatorFeedback(f.item_key, f.action, f.recommended_units, f.chosen_units)
    /\ UNCHANGED lockVars

(***************************************************************************)
(* The three locks.  A call is the sequence of `with` blocks it runs       *)
(* through, each named by the lock it takes.                               *)
(***************************************************************************)
\* _run: provider() (with reco_lock: generate), _insert_point (with _db_lock),
\* then with self._condition: append and notify_all
SamplerTick == <<"reco_lock", "db_lock", "history_lock">>

\* _wait_for_point_after: with self._condition; wait() releases it and takes it again
StreamWait == <<"history_lock", "history_lock">>

\* get_latest_metrics; recommendations() falling back to generate; get_history,
\* record_feedback and get_feedback_summary; the business-profile handlers;
\* __init__ (_prepare_storage, then _hydrate_memory_cache)
ApiCalls ==
    { <<"history_lock">>,
      <<"history_lock", "reco_lock">>,
      <<"db_lock">>,
      <<"reco_lock">>,
      <<"db_lock", "db_lock", "history_lock">> }

CallsOf(t) ==
    IF t = "sampler" THEN {SamplerTick}
    ELSE IF t = "stream" THEN {StreamWait}
    ELSE ApiCalls

Holder(lock) ==
    IF lock = "reco_lock" THEN reco_lock
    ELSE IF lock = "db_lock" THEN db_lock
    ELSE history_lock

OutsideOrNested(held) == TRUE

\* a `with` block starts after the block before it has ended
Outside(held) == held = <<>>

\* a thread starts a call
BeginCall(t, call) ==
    /\ workers[t] = IdleWorker
    /\ workers' = [workers EXCEPT ![t].todo = call]
    /\ UNCHANGED <<reco_lock, db_lock, history_lock, threads>>

\* with <lock>: acquire
EnterBlock(t) ==
    LET lock == Head(workers[t].todo)
    IN /\ workers[t].todo # <<>>
       /\ Outside(workers[t].held)
       /\ Holder(lock) = "free"
       /\ reco_lock' = IF lock = "reco_lock" THEN t ELSE reco_lock
       /\ db_lock' = IF lock = "db_lock" THEN t ELSE db_lock
       /\ history_lock' = IF lock = "history_lock" THEN t ELSE history_lock
       /\ workers' = [workers EXCEPT ![t].held = Append(@, lock), ![t].todo = Tail(@)]
       /\ UNCHANGED threads

\* the end of the `with` block entered last: release
ExitBlock(t) ==
    LET held == workers[t].held
        lock == held[Len(held)]
    IN /\ held # <<>>
       /\ reco_lock' = IF lock = "reco_lock" THEN "free" ELSE reco_lock
       /\ db_lock' = IF lock = "db_lock" THEN "free" ELSE db_lock
       /\ history_lock' = IF lock = "history_lock" THEN "free" ELSE history_lock
       /\ workers' = [workers EXCEPT ![t].held = SubSeq(held, 1, Len(held) - 1)]
       /\ UNCHANGED threads

(***************************************************************************)
(* Inputs and specifications of the engine.                                *)
(***************************************************************************)
TimePoints == {0, 1, decision_interval_sec, cook_time_sec}
Loads == {0, 21}
Snapshots ==
    [timestamp : TimePoints, total_customers : Loads, stream_status : {"ok", "degraded"}]

\* error snapshots, with and without the stream's error text
ErrorSnapshots ==
    [timestamp : {1}, total_customers : {21}, stream_status : {"error"},
     stream_error : {"", "rtsp timeout"}]

Feedback(k, a, r, c) ==
    [item_key |-> k, action |-> a, recommended_units |-> r, chosen_units |-> c]

FeedbackInputs ==
    { Feedback("fries", "override", 10, 20),
      Feedback("wings", "ignore", 10, 0),
      Feedback("ghost", "accept", 10, 10) }

Init == EngineInit /\ StoreInit(<<>>, {}) /\ ServiceInit /\ ProbeInit

Next ==
    /\ ops < MaxOps
    /\ \/ \E snapshot \in Snapshots : GenerateHealthy(snapshot)
       \/ \E snapshot \in Snapshots \cup ErrorSnapshots : GenerateUnavailable(snapshot)
       \/ \E f \in FeedbackInputs :
            ApplyOperatorFeedback(f.item_key, f.action, f.recommended_units, f.chosen_units)
       \/ ConfigureBusinessProfile(Recatalog(DemoProfiles))
    /\ UNCHANGED <<dbVars, streamVars, lockVars, probeVars>>

Spec == Init /\ [][Next]_vars


\* A long shift: healthy snapshots half an hour apart, idle or very busy.
LongStepSec == 60 * decision_interval_sec
LongLoads == {0, 1000}
LongSnapshot(customers) ==
    [timestamp |-> IF history = <<>> THEN 0 ELSE history[Len(history)].t + LongStepSec,
     total_customers |-> customers, stream_status |-> "ok"]

NextLongRun ==
    /\ ops < MaxLongOps
    /\ \/ \E customers \in LongLoads : GenerateHealthy(LongSnapshot(customers))
       \/ \E profiles \in {DefaultProfiles, DemoProfiles} :
            ConfigureBusinessProfile(Recatalog(profiles))
    /\ UNCHANGED <<dbVars, streamVars, lockVars, probeVars>>

SpecLongRun == Init /\ [][NextLongRun]_vars

\* An operator who keeps sending feedback.
DeepFeedbackInputs ==
    { Feedback("fries", "accept", 10, 10),
      Feedback("fries", "accept", 10, 20),
      Feedback("fries", "override", 10, 20),
      Feedback("fries", "ignore", 10, 0),
      Feedback("ghost", "override", 10, 20) }

NextFeedback ==
    /\ ops < MaxFeedbackOps
    /\ \/ \E f \in DeepFeedbackInputs :
            ApplyOperatorFeedback(f.item_key, f.action, f.recommended_units, f.chosen_units)
       \/ ConfigureBusinessProfile(Recatalog(DefaultProfiles))
       \/ GenerateUnavailable([timestamp |-> 0, total_customers |-> 21,
                               stream_status |-> "degraded"])
    /\ UNCHANGED <<dbVars, streamVars, lockVars, probeVars>>

SpecFeedback == Init /\ [][NextFeedback]_vars

\* Feedback of every shape: accepted in several spellings, chosen above, within
\* and below the band around the recommendation, nothing recommended, negative
\* quantities, an unknown item.
RuleFeedbackInputs ==
    { Feedback("fries", "accept", 10, 30),
      Feedback("fries", " accept ", 10, 0),
      Feedback("fries", "Accept", 0, 5),
      Feedback("fries", "OVERRIDE", 10, 11),
      Feedback("fries", "override", 10, 20),
      Feedback("fries", "ignore", 10, 0),
      Feedback("fries", "ignore", 10, 8),
      Feedback("fries", "override", 0, 1),
      Feedback("fries", "override", -5, 1),
      Feedback("fries", "override", 4, -3),
      Feedback("nuggets", "override", 3, 4),
      Feedback("ghost", "override", 10, 20) }

NextRule ==
    /\ ops < MaxRuleOps
    /\ \/ \E f \in RuleFeedbackInputs :
            ApplyOperatorFeedback(f.item_key, f.action, f.recommended_units, f.chosen_units)
       \/ ConfigureBusinessProfile(Recatalog(DefaultProfiles))
    /\ UNCHANGED <<dbVars, streamVars, lockVars, probeVars>>

SpecRule == Init /\ [][NextRule]_vars

\* An operator who reconfigures, with well-formed and malformed profiles, around
\* ticks and feedback that give the engine state to lose.
ConfigureSnapshots ==
    [timestamp : {0, decision_interval_sec}, total_customers : {21},
     stream_status : {"ok", "degraded"}]

ConfigurePayloads ==
    { BusinessProfile(business_name, business_type, "", "", avg_ticket_usd, profiles) :
        business_name \in {" ", "Taco Stand"},
        business_type \in {"", "Food Truck"},
        avg_ticket_usd \in {None, Some(0), Some(12 * Scale)},
        profiles \in {None, Some(DemoProfiles), Some(DefaultProfiles)} }

NextConfigure ==
    /\ ops < MaxConfigureOps
    /\ \/ \E snapshot \in ConfigureSnapshots : GenerateHealthy(snapshot)
       \/ \E snapshot \in ConfigureSnapshots : GenerateUnavailable(snapshot)
       \/ \E f \in FeedbackInputs :
            ApplyOperatorFeedback(f.item_key, f.action, f.recommended_units, f.chosen_units)
       \/ \E payload \in ConfigurePayloads : ConfigureBusinessProfile(payload)
    /\ UNCHANGED <<dbVars, streamVars, lockVars, probeVars>>

SpecConfigure == Init /\ [][NextConfigure]_vars

\* A queue that grows: two free ticks, then one more customer every decision
\* interval, for longer than the history holds.
RampSnapshot(timestamp, customers) ==
    [timestamp |-> timestamp, total_customers |-> customers, stream_status |-> "ok"]

NextRamp ==
    /\ ops < MaxRampOps
    /\ \/ /\ Len(history) < 2
          /\ \E timestamp \in {0, decision_interval_sec}, customers \in Loads :
                GenerateHealthy(RampSnapshot(timestamp, customers))
       \/ /\ Len(history) >= 2
          /\ GenerateHealthy(RampSnapshot(
                 history[Len(history)].t + decision_interval_sec,
                 history[Len(history)].c \div Scale + 1))
    /\ UNCHANGED <<dbVars, streamVars, lockVars, probeVars>>

SpecRamp == Init /\ [][NextRamp]_vars

\* The decision clock: ticks a few seconds and a whole interval apart, a
\* reconfiguration, and _decision_due on timestamps between whole seconds.
ClockSnapshots ==
    [timestamp : {0, 7, decision_interval_sec, decision_interval_sec + 7},
     total_customers : {21}, stream_status : {"ok"}]

ConfiguredIntervals == {1, decision_interval_sec}
ProbeLast == {NoTime, 0, 4}
ProbeNow == {0, 3, 12, 47, 50, 53, 297, 300, 303, 304}

NextClock ==
    \/ /\ ops < MaxClockOps
       /\ \/ \E snapshot \in ClockSnapshots : GenerateHealthy(snapshot)
          \/ ConfigureBusinessProfile(Recatalog(DemoProfiles))
       /\ UNCHANGED <<dbVars, streamVars, lockVars, probeVars>>
    \/ \E configured_sec \in ConfiguredIntervals, last_tenths \in ProbeLast,
          now_tenths \in ProbeNow :
            DecisionDueProbe(configured_sec, last_tenths, now_tenths)

SpecClock == Init /\ [][NextClock]_vars

\* Urgency: one engine per run, its thresholds configured inside and outside
\* [0, 1], in and out of order, and gaps on both sides of each threshold
\* (thousandths)
ConfiguredRatios == {-200, 0, 150, 350, 1500}
DemandUnits == {-1000, 0, 3000, 10000}
InventoryUnits == {-500, 0, 2000, 6500, 6501, 8500, 9000, 12000}
Gaps == [demand_units : DemandUnits, inventory_units : InventoryUnits]

NextUrgency ==
    /\ urgency_probe = NoUrgencyProbe
    /\ \E configured_medium \in ConfiguredRatios, configured_high \in ConfiguredRatios,
          first \in Gaps, second \in Gaps :
            UrgencyProbe(configured_medium, configured_high, <<first, second>>)

SpecUrgency == Init /\ [][NextUrgency]_vars

\* Two threads around one engine: snapshots a cook time apart, so that a
\* committed lot matures in the second cycle.
LockedSnapshots ==
    [timestamp : {0, decision_interval_sec, cook_time_sec}, total_customers : {21},
     stream_status : {"ok", "error"}]

NextLocked ==
    /\ \/ /\ ops < MaxLockedOps
          /\ \/ \E t \in Threads, snapshot \in LockedSnapshots : GenerateAdvance(t, snapshot)
             \/ \E t \in Threads, snapshot \in LockedSnapshots :
                    LockedGenerateUnavailable(t, snapshot)
             \/ \E t \in Threads : LockedConfigure(t, DemoProfiles)
             \/ \E t \in Threads, f \in FeedbackInputs : LockedFeedback(t, f)
       \/ \E t \in Threads : GeneratePlan(t)
    /\ UNCHANGED <<dbVars, streamVars, probeVars>>

SpecLocked == Init /\ [][NextLocked]_vars

\* The service's threads around the three locks.
NextLocks ==
    /\ \/ \E t \in Workers : \E call \in CallsOf(t) : BeginCall(t, call)
       \/ \E t \in Workers : EnterBlock(t)
       \/ \E t \in Workers : ExitBlock(t)
    /\ UNCHANGED <<engineVars, dbVars, streamVars, probeVars>>

SpecLocks == Init /\ [][NextLocks]_vars

(***************************************************************************)
(* Inputs and specifications of the store.                                 *)
(***************************************************************************)
FeedbackRecord(timestamp, horizon, chosen) ==
    [timestamp |-> timestamp, item_key |-> "fries", action |-> "override",
     recommended_units |-> 15, chosen_units |-> chosen, baseline_units |-> 18,
     max_unit_size |-> 28, unit_cost_usd |-> 440, units_per_order |-> 720,
     forecast_horizon_min |-> horizon, projected_customers |-> 21 * Scale,
     avg_ticket_usd |-> 8500]

WallStepSec == decision_interval_sec

\* now-stamped with the shortest horizon; explicit with a one-minute horizon;
\* a timestamp without zone
FeedbackRecords ==
    { FeedbackRecord(None, 0, 10),
      FeedbackRecord(Some(IsoText(0, TRUE, "Z")), Scale, 40),
      FeedbackRecord(Some(IsoText(0, FALSE, "naive")), 0, 10) }

StorageFailures == {"none", "sweep", "insert"}

\* what the provider returns now: a healthy count, or an error snapshot
SampledNow ==
    { [timestamp |-> IsoText(wall_now, TRUE, "+00:00"),
       stream_status |-> "ok", total_customers |-> 21 * Scale,
       projected_customers |-> 21 * Scale],
      [timestamp |-> IsoText(wall_now, FALSE, "+00:00"),
       stream_status |-> "error", total_customers |-> 0,
       projected_customers |-> 0] }

\* Rows already in analytics_samples when the store is constructed.
PriorSamples(n) ==
    [i \in 1..n |->
        Point(i, [timestamp |-> IsoText(0, FALSE, "+00:00"),
                  stream_status |-> "ok", total_customers |-> 0])]

NextStore ==
    /\ \/ /\ store_ops < MaxStoreOps
          /\ \/ \E input \in FeedbackRecords, failure \in StorageFailures :
                   RecordFeedback(input, failure)
             \/ \E failure \in StorageFailures \ {"insert"} : GetFeedbackSummary(failure)
          /\ UNCHANGED streamVars
       \/ /\ wall_now < MaxWallTicks * WallStepSec
          /\ WallClockTick(WallStepSec)
          /\ UNCHANGED streamVars
       \/ Start
       \/ /\ Len(samples) < MaxStoreSamples
          /\ \E sample \in SampledNow : SamplerSample(sample, "ok")
       \/ SamplerPublish
    /\ UNCHANGED <<engineVars, lockVars, probeVars>>

SpecStore == Init /\ [][NextStore]_vars

\* Rows analytics_samples can hold when a record is evaluated, stamped as the
\* aggregated snapshot is (isoformat with "+00:00" replaced by "Z"): fraction
\* digits unless the microseconds are zero.
EvaluateSample(sec, half, status, customers) ==
    [timestamp |-> IsoText(sec, half, "Z"), stream_status |-> status,
     total_customers |-> customers * Scale]

EvaluateSamples ==
    << EvaluateSample(0, TRUE, "ok", 10),
       EvaluateSample(15, FALSE, "error", 40),
       EvaluateSample(15, TRUE, "degraded", 21),
       EvaluateSample(30, FALSE, "ok", 5),
       EvaluateSample(30, TRUE, "ok", 30) >>

\* the rows of a sequence picked by a set of positions, in order, with ids 1..n
RECURSIVE Picked(_, _, _)
Picked(all, positions, from) ==
    IF from > Len(all) THEN <<>>
    ELSE IF from \in positions THEN <<all[from]>> \o Picked(all, positions, from + 1)
    ELSE Picked(all, positions, from + 1)

EvaluateTables ==
    { [i \in 1..Len(Picked(EvaluateSamples, positions, 1)) |->
          Point(i, Picked(EvaluateSamples, positions, 1)[i])] :
        positions \in { chosen \in SUBSET (1..Len(EvaluateSamples)) :
                          Cardinality(chosen) <= MaxEvaluateSamples } }

\* stamped by the store at a whole second; stamped by the caller with fraction
\* digits; half a unit per order, so that customers x units lands on a half
EvaluateRecords ==
    { FeedbackRecord(None, 0, 10),
      FeedbackRecord(Some(IsoText(0, TRUE, "Z")), Scale \div 2, 40),
      [FeedbackRecord(None, 0, 10) EXCEPT !.units_per_order = Scale \div 2] }

InitEvaluate ==
    /\ EngineInit
    /\ ServiceInit
    /\ ProbeInit
    /\ \E table \in EvaluateTables : StoreInit(table, {})

NextEvaluate ==
    /\ \/ /\ store_ops < MaxEvaluateOps
          /\ \/ \E input \in EvaluateRecords : RecordFeedback(input, "none")
             \/ GetFeedbackSummary("none")
       \/ /\ wall_now < MaxWallTicks * WallStepSec
          /\ WallClockTick(WallStepSec)
    /\ UNCHANGED <<engineVars, streamVars, lockVars, probeVars>>

SpecEvaluate == InitEvaluate /\ [][NextEvaluate]_vars

\* enough store calls to fill one sweep's LIMIT, add one more record, and sweep
MaxSweepOps == SweepLimit + 2

\* stamped now with the shortest horizon; stamped now with an hour's horizon
SweepRecords ==
    { FeedbackRecord(None, 0, 10),
      FeedbackRecord(None, 60 * Scale, 10) }

NextSweep ==
    /\ \/ /\ store_ops < MaxSweepOps
          /\ \/ \E input \in SweepRecords : RecordFeedback(input, "none")
             \/ GetFeedbackSummary("none")
       \/ /\ wall_now < MaxWallTicks * WallStepSec
          /\ WallClockTick(WallStepSec)
    /\ UNCHANGED <<engineVars, streamVars, lockVars, probeVars>>

SpecSweep == Init /\ [][NextSweep]_vars

\* Sweeps that never stop coming: records stamped now (aware) or by the caller
\* without zone, every horizon the shortest; once MaxLiveOps calls are counted
\* the summary is still called, uncounted.
LiveRecords ==
    { FeedbackRecord(None, 0, 10),
      FeedbackRecord(Some(IsoText(0, FALSE, "naive")), 0, 10) }

\* get_feedback_summary, the call and the sweep observers left as they are
GetFeedbackSummaryUncounted ==
    /\ store_op' = StoreCall("get_feedback_summary",
                             IF SweepRaises(feedback_rows, wall_now)
                             THEN "sweep_failed" ELSE "")
    /\ feedback_rows' = IF SweepRaises(feedback_rows, wall_now) THEN feedback_rows
                        ELSE EvaluateFeedbackOutcomes(feedback_rows, samples, wall_now)
    /\ UNCHANGED <<samples, wall_now, store_ops, sweeps>>

LiveSweep ==
    \/ store_ops < MaxLiveOps /\ GetFeedbackSummary("none")
    \/ store_ops >= MaxLiveOps /\ GetFeedbackSummaryUncounted

LiveTick == wall_now < MaxWallTicks * WallStepSec /\ WallClockTick(WallStepSec)

NextLive ==
    /\ \/ /\ store_ops < MaxLiveOps
          /\ \E input \in LiveRecords : RecordFeedback(input, "none")
       \/ LiveSweep
       \/ LiveTick
    /\ UNCHANGED <<engineVars, streamVars, lockVars, probeVars>>

SpecLive ==
    /\ Init
    /\ [][NextLive]_vars
    /\ WF_dbVars(LiveSweep)
    /\ WF_dbVars(LiveTick)

StreamSample ==
    [timestamp |-> IsoText(0, TRUE, "+00:00"), stream_status |-> "ok",
     total_customers |-> 21 * Scale, projected_customers |-> 21 * Scale]

Subscribers == {"s1"}

\* how a sampling tick ends: both calls return, provider() raises, _insert_point raises
SampleOutcomes == {"ok", "provider_error", "insert_error"}

\* a negative id, an id already evicted from the ring, an id not yet published
LastIds == {-1, 1, MemoryPoints + 3}

InitStream ==
    /\ EngineInit
    /\ ServiceInit
    /\ ProbeInit
    /\ \E n \in {0, MemoryPoints + 1} : StoreInit(PriorSamples(n), Subscribers)

NextStream ==
    /\ \/ Start
       \/ Stop
       \/ /\ Len(samples) < MaxSamples
          /\ \E outcome \in SampleOutcomes : SamplerSample(StreamSample, outcome)
       \/ /\ Len(samples) >= MaxSamples
          /\ stop_event
          /\ SamplerSample(StreamSample, "ok")
       \/ SamplerBackoff
       \/ SamplerPublish
       \/ \E s \in Subscribers, last_id \in LastIds : Subscribe(s, last_id)
       \/ \E s \in Subscribers : SubscriberLoop(s)
       \/ \E s \in Subscribers : SubscriberCheck(s)
       \/ \E s \in Subscribers : SubscriberYield(s)
       \/ Tick
    /\ UNCHANGED <<engineVars, lockVars, probeVars>>

SpecStream ==
    /\ InitStream
    /\ [][NextStream]_vars
    /\ WF_streamVars(Tick)
    /\ WF_streamVars(SamplerBackoff)
    /\ \A s \in Subscribers : WF_streamVars(SubscriberCheck(s))

(***************************************************************************)
(* Claims about the engine.                                                *)
(***************************************************************************)
EngineState == <<item_profiles, history, inventory, last_inventory_timestamp,
                 last_decision_timestamp, last_decision_by_item,
                 feedback_multiplier_by_item, feedback_events_by_item, business>>

\* C1 (decision lock): a healthy generate() whose snapshot time is less than the
\* decision interval after the last decision tick, with no reconfiguration since
\* that tick, reports for every item exactly the units committed at that tick.
C1_DecisionLock ==
    (/\ last_op.op = "generate"
     /\ last_op.status = "ok"
     /\ committed.at # NoTime
     /\ last_op.timestamp - committed.at < decision_interval_sec)
    => \A k \in DOMAIN item_profiles :
          resp.items[k].recommended_units = committed.units[k]

\* C1 witness: a held tick after operator feedback whose own target differs from
\* the units it reports.
C1_Witness ==
    /\ last_op.op = "generate"
    /\ last_op.status = "ok"
    /\ ~resp.decision_due
    /\ committed.at # NoTime
    /\ last_op.timestamp - committed.at < decision_interval_sec
    /\ "fries" \in DOMAIN feedback_events_by_item
    /\ feedback_events_by_item["fries"] > 0
    /\ resp.items["fries"].target_units # resp.items["fries"].recommended_units
    /\ resp.items["fries"].recommended_units = committed.units["fries"]

\* C2 as claimed (anti-oscillation over healthy, degraded and error snapshots):
\* two successive changes of the units reported for an item are at least one
\* decision interval of snapshot time apart.
C2_AntiOscillationAnySnapshot ==
    \A k \in DOMAIN oscillation :
        oscillation[k].changes >= 2 => oscillation[k].gap >= decision_interval_sec

\* C2 amended: over healthy snapshots only (no degraded or error snapshot and no
\* reconfiguration in between), two successive changes of the units reported for
\* an item are at least one decision interval of snapshot time apart.
C2_AntiOscillationHealthy ==
    ~fallback_seen =>
        \A k \in DOMAIN oscillation :
            oscillation[k].changes >= 2 => oscillation[k].gap >= decision_interval_sec

\* C2 witness: a healthy-only run in which an item's reported units changed twice.
C2_Witness ==
    /\ ~fallback_seen
    /\ \E k \in DOMAIN oscillation :
          oscillation[k].changes >= 2 /\ oscillation[k].gap >= decision_interval_sec

\* C4: every item's feedback multiplier lies in [0.75, 1.25], and is 1.0 while the
\* item has received no feedback since construction or reconfiguration.
C4_MultiplierBounded ==
    \A k \in DOMAIN feedback_multiplier_by_item :
        /\ feedback_multiplier_by_item[k] >= 750
        /\ feedback_multiplier_by_item[k] <= 1250
        /\ feedback_events_by_item[k] = 0 => feedback_multiplier_by_item[k] = Scale

\* C4 witness: repeated overrides have driven a multiplier onto the upper bound.
C4_Witness ==
    \E k \in DOMAIN feedback_multiplier_by_item :
        feedback_multiplier_by_item[k] = 1250 /\ feedback_events_by_item[k] >= 7

\* C5: operator feedback for a key outside the current catalog ends with the
\* unknown-item error and changes no multiplier, event counter, inventory or
\* decision-clock state.
C5_UnknownItemRejected ==
    [][(/\ ops' = ops + 1
        /\ last_op'.op = "feedback"
        /\ last_op'.item_key \notin DOMAIN item_profiles)
       => (/\ last_op'.error = "unknown_item"
           /\ UNCHANGED EngineState)]_vars

\* C5 witness: a rejected feedback call on an engine that holds decisions,
\* in-flight lots and a tuned multiplier.
C5_Witness ==
    /\ last_op.op = "feedback"
    /\ last_op.error = "unknown_item"
    /\ last_decision_timestamp # NoTime
    /\ \E k \in DOMAIN inventory : inventory[k].fryer_lots # <<>>
    /\ \E k \in DOMAIN feedback_events_by_item : feedback_events_by_item[k] > 0

ReadyCap(k) == item_profiles[k].max_unit_size * 6 * Scale

\* Every committed lot is still queued or was promoted once, and no queued lot
\* has matured by the time the inventory was last advanced to.
LotsAccounted(k) ==
    /\ ledger[k].promoted + FryerUnits(inventory[k]) = ledger[k].committed
    /\ \A i \in 1..Len(inventory[k].fryer_lots) :
          inventory[k].fryer_lots[i].ready_at > last_inventory_timestamp

\* C6 as claimed (inventory conservation): with zero demand every committed lot is
\* either still queued or was promoted once, and the promoted quantity is exactly
\* what was added to ready-units.
C6_ConservationExact ==
    \A k \in DOMAIN item_profiles :
        ledger[k].zero_demand =>
            /\ LotsAccounted(k)
            /\ inventory[k].ready_units =
                 InitialReadyUnits(item_profiles[k]) + ledger[k].promoted * Scale

\* C6 amended: with zero demand every committed lot is either still queued or was
\* promoted once, and ready-units equals the initial quantity plus the promoted
\* quantity, limited by the cap of 6 x max_unit_size.
C6_ConservationUpToCap ==
    \A k \in DOMAIN item_profiles :
        ledger[k].zero_demand =>
            /\ LotsAccounted(k)
            /\ inventory[k].ready_units =
                 Min(ReadyCap(k),
                     InitialReadyUnits(item_profiles[k]) + ledger[k].promoted * Scale)

\* C6 witness: zero demand, one lot promoted and another still cooking.
C6_Witness ==
    \E k \in DOMAIN item_profiles :
        /\ ledger[k].zero_demand
        /\ ledger[k].promoted > 0
        /\ inventory[k].fryer_lots # <<>>
        /\ inventory[k].ready_units > InitialReadyUnits(item_profiles[k])

\* C7: every reported quantity lies in 0..max_unit_size, and on a due tick it is
\* min(roundHalfUp(effectiveCustomers x unitsPerOrder x multiplier), max_unit_size),
\* 0 for a non-positive target.
C7_RoundAndCap ==
    resp.kind # "none" =>
        \A k \in DOMAIN resp.items :
            LET item == resp.items[k]
                adjusted == MulMilli(MulMilli(resp.effective_customers, item.units_per_order),
                                     item.feedback_multiplier)
                expected == IF adjusted <= 0 THEN 0
                            ELSE Min((adjusted + 500) \div 1000, item.max_unit_size)
            IN /\ item.recommended_units >= 0
               /\ item.recommended_units <= item.max_unit_size
               /\ (resp.kind = "ok" /\ resp.decision_due)
                    => item.recommended_units = expected

\* C7 witness: 21 customers, 0.5 units per order, cap 10: 10.5 rounds to 11, capped to 10.
C7_Witness ==
    /\ resp.kind = "ok"
    /\ resp.decision_due
    /\ resp.effective_customers = 21 * Scale
    /\ "wings" \in DOMAIN resp.items
    /\ resp.items["wings"].units_per_order = 500
    /\ resp.items["wings"].max_unit_size = 10
    /\ resp.items["wings"].feedback_multiplier = Scale
    /\ (MulMilli(resp.effective_customers, 500) + 500) \div 1000 = 11
    /\ resp.items["wings"].recommended_units = 10

\* C8: every item's ready-units stays within 0 .. 6 x max_unit_size.
C8_ReadyUnitsBounded ==
    \A k \in DOMAIN inventory :
        /\ inventory[k].ready_units >= 0
        /\ inventory[k].ready_units <= ReadyCap(k)

\* C8 witness: promotions have filled an item's ready inventory up to the cap.
C8_Witness ==
    \E k \in DOMAIN inventory :
        /\ inventory[k].ready_units = ReadyCap(k)
        /\ ledger[k].promoted * Scale > ReadyCap(k) - InitialReadyUnits(item_profiles[k])

(***************************************************************************)
(* Claims about the store.                                                 *)
(***************************************************************************)
Terminal(row) == row.outcome_status \in {"evaluated", "insufficient_data"}

\* C3 (outcome state machine): every feedback record is inserted as pending; a
\* record only ever moves from pending to evaluated or insufficient_data; once it
\* is terminal no later operation or sweep changes any of its fields (status,
\* evaluated_at, realized figures); and no record is ever removed.
C3_OutcomeStateMachine ==
    [][/\ Len(feedback_rows') >= Len(feedback_rows)
       /\ \A i \in 1..Len(feedback_rows') :
            IF i > Len(feedback_rows)
            THEN feedback_rows'[i].outcome_status = "pending"
            ELSE /\ Terminal(feedback_rows[i]) => feedback_rows'[i] = feedback_rows[i]
                 /\ \/ feedback_rows'[i].outcome_status = feedback_rows[i].outcome_status
                    \/ Terminal(feedback_rows'[i])]_vars

\* C3 witness: a sweep has just committed, at a later clock reading, over a
\* record that an earlier sweep had evaluated.
C3_Witness ==
    /\ store_op = StoreCall("get_feedback_summary", "")
    /\ \E i \in 1..Len(feedback_rows) :
          /\ feedback_rows[i].outcome_status = "evaluated"
          /\ sweeps.left_pending_in[i] < sweeps.count
          /\ feedback_rows[i].evaluated_at # Some(UtcIsoNow(wall_now))

OldestNewer(ring, cursor) ==
    LET newer == { ring[i].id : i \in { j \in 1..Len(ring) : ring[j].id > cursor } }
    IN IF newer = {} THEN None ELSE Some(CHOOSE id \in newer : \A other \in newer : id <= other)

StrictlyIncreasingAbove(ids, floor) ==
    \A i \in 1..Len(ids) :
        /\ ids[i] > floor
        /\ i > 1 => ids[i] > ids[i - 1]

\* C9 (live subscription ordering): the ids delivered to a subscriber started at
\* cursor N are strictly increasing and all greater than N (so none is delivered
\* twice); the point a wait returns is the entry of the ring buffer with the
\* smallest id greater than the subscriber's cursor, and delivering it moves the
\* cursor to that id.
C9_LiveOrdering ==
    [][\A s \in DOMAIN subs :
        /\ (InWait(subs[s]) /\ subs'[s].pc = "got" /\ subs'[s].point # None)
              => Some(subs'[s].point[1].id) = OldestNewer(store_history, subs[s].cursor)
        /\ (subs[s].pc = "got" /\ subs[s].point # None /\ subs'[s].pc # "got")
              => /\ subs'[s].cursor = subs[s].point[1].id
                 /\ subs'[s].cursor > subs[s].cursor
                 /\ subs'[s].delivered = Append(subs[s].delivered, subs[s].point[1].id)
        /\ subs'[s].cursor # subs[s].cursor
              => subs[s].pc \in {"idle", "got"}
        /\ StrictlyIncreasingAbove(subs'[s].delivered, subs'[s].start)]_vars

\* C9 witness: a subscriber that received two events, the first of which was the
\* oldest entry left in a ring buffer that no longer held the id after its cursor.
C9_Witness ==
    \E s \in DOMAIN subs :
        /\ Len(subs[s].delivered) >= 2
        /\ subs[s].delivered[1] > subs[s].start + 1
        /\ subs[s].delivered[2] > subs[s].delivered[1]
        /\ subs[s].cursor = subs[s].delivered[Len(subs[s].delivered)]

\* One step of a subscriber around a wait that times out.
TimeoutStep(s) ==
    /\ InWait(subs'[s]) => subs'[s].waited <= WaitBudget(StreamTimeoutTenths)
    /\ (/\ InWait(subs[s])
        /\ subs[s].remaining <= 0
        /\ latest_id <= subs[s].cursor
        /\ ~InWait(subs'[s]))
          => subs'[s].pc = "got" /\ subs'[s].point = None
    /\ (subs[s].pc = "got" /\ subs[s].point = None /\ subs'[s].pc # "got")
          => /\ subs'[s].pc = "loop"
             /\ subs'[s].last_yield = "keepalive"
             /\ subs'[s].cursor = subs[s].cursor
    /\ (subs[s].pc = "loop" /\ subs[s].last_yield = "keepalive" /\ subs'[s] # subs[s])
          => /\ subs'[s].cursor = subs[s].cursor
             /\ IF stop_event THEN subs'[s].pc = "done" ELSE subs'[s].pc = "call"

\* C10 (bounded wait): a reader inside a wait for the next id after N has waited
\* at most the timeout (15 s) and always leaves the wait; when the timeout expires
\* with no point of a greater id published the wait returns empty, the subscriber
\* emits a keep-alive and, the store still running, waits again with its cursor
\* unchanged.
C10_BoundedWait ==
    /\ [][\A s \in DOMAIN subs : TimeoutStep(s)]_vars
    /\ \A s \in Subscribers : InWait(subs[s]) ~> (subs[s].pc = "got")

\* C10 witness: a subscriber whose last wait ran the full timeout and returned
\* empty, that emitted a keep-alive and is waiting again on the same cursor, points
\* with ids up to that cursor having been published meanwhile.
C10_Witness ==
    \E s \in DOMAIN subs :
        /\ subs[s].pc = "waiting"
        /\ subs[s].last_wait = "timeout"
        /\ subs[s].last_yield = "keepalive"
        /\ subs[s].cursor = subs[s].start
        /\ subs[s].delivered = <<>>
        /\ latest_id > 0
        /\ latest_id <= subs[s].cursor
        /\ ~stop_event

(***************************************************************************)
(* Claims about the sampler.                                               *)
(***************************************************************************)
Published == <<store_history, latest_id, latest_metrics, latest_recommendation>>

\* C11: a sampling tick whose provider or durable append fails leaves the ring
\* buffer, the latest id, the latest metrics and the latest recommendation (and
\* the table) exactly as they were; the published state changes only by the
\* publication of one whole entry, and that entry is already a row of the table.
C11_FailedAppendPublishesNothing ==
    [][/\ (sampler.pc = "idle" /\ sampler'.pc = "failed")
            => UNCHANGED <<Published, samples>>
       /\ Published' # Published
            => /\ sampler.pc = "inserted"
               /\ \E i \in 1..Len(samples) :
                     /\ samples[i] = sampler.point[1]
                     /\ store_history' = RingAppend(store_history, samples[i])
                     /\ latest_id' = samples[i].id
               /\ latest_metrics' = Some(Metrics(sampler.provided[1]))
               /\ latest_recommendation' = Some(Recommendation(sampler.provided[1]))]_vars

\* C11 witness: the durable append has just failed on a store whose ring buffer
\* and latest values hold an earlier published entry.
C11_Witness ==
    /\ sampler.pc = "failed"
    /\ sampler.error = "insert_error"
    /\ latest_metrics # None
    /\ latest_id = Len(samples)
    /\ store_history # <<>>
    /\ store_history[Len(store_history)].id = latest_id

(***************************************************************************)
(* Claims about the service's locking.                                     *)
(***************************************************************************)
MidCycle(t) == threads[t].pc = "advanced"

Distance(multiplier) ==
    IF multiplier >= Scale THEN multiplier - Scale ELSE Scale - multiplier

\* C13: an accepted feedback call moves the item's multiplier no further from
\* 1.0 than it was, never to the other side of 1.0, and leaves it in
\* [0.75, 1.25], whatever quantities the call carries.
C13_AcceptConverges ==
    [][(/\ ops' = ops + 1
        /\ last_op'.op = "feedback"
        /\ last_op'.status = "accept"
        /\ last_op'.error = "")
       => LET k == last_op'.item_key
              before == feedback_multiplier_by_item[k]
              after == feedback_multiplier_by_item'[k]
          IN /\ Distance(after) <= Distance(before)
             /\ before >= Scale => after >= Scale
             /\ before <= Scale => after <= Scale
             /\ after >= 750 /\ after <= 1250
             /\ Distance(before) >= 10 => Distance(after) < Distance(before)]_vars

\* C13 witness: accepts after overrides had driven the multiplier onto 1.25 have
\* brought it back toward 1.0 without reaching it.
C13_Witness ==
    /\ last_op.op = "feedback"
    /\ last_op.status = "accept"
    /\ last_op.error = ""
    /\ feedback_events_by_item["fries"] >= 8
    /\ feedback_multiplier_by_item["fries"] > Scale
    /\ feedback_multiplier_by_item["fries"] < 1250

\* C14: a generate() call on a degraded or error snapshot ends without an error
\* and reports, for every item, min(round(max(0, current customers) x units per
\* order x multiplier), max_unit_size): the raw current count, no trend added;
\* the payload says queue_state unavailable, trend 0, confidence 0.45, and carries
\* the stream's error text exactly when the snapshot had one.
C14_FallbackMode ==
    (last_op.op = "generate" /\ last_op.status # "ok")
    => /\ last_op.error = ""
       /\ resp.kind = "unavailable"
       /\ resp.queue_state = "unavailable"
       /\ resp.trend_customers_per_min = 0
       /\ resp.confidence = 450
       /\ resp.current_customers = last_op.customers * Scale
       /\ resp.projected_customers = last_op.customers * Scale
       /\ resp.effective_customers = Max(0, last_op.customers * Scale)
       /\ DOMAIN resp.items = DOMAIN item_profiles
       /\ \A k \in DOMAIN resp.items :
             resp.items[k].recommended_units =
                Min(RoundToNearestUnit(
                        MulMilli(MulMilli(Max(0, last_op.customers * Scale),
                                          item_profiles[k].units_per_order),
                                 feedback_multiplier_by_item[k])),
                    item_profiles[k].max_unit_size)
       /\ resp.stream_issue_note = last_op.stream_error

\* C14 witness: an error snapshot with error text, served while the history shows
\* a rising trend.
C14_Witness ==
    /\ last_op.op = "generate"
    /\ last_op.status = "error"
    /\ last_op.stream_error = Some("rtsp timeout")
    /\ Len(history) >= 2
    /\ TrendPerMin(history) > 0
    /\ ProjectedCustomers(history, last_op.customers * Scale) > resp.effective_customers
    /\ resp.effective_customers > 0

\* C15: an exception of the provider or of the durable append does not end the
\* sampling loop: the handler's only continuation is the loop test, and it gets
\* there; the thread ends only at the loop test with stop requested; at the loop
\* test without stop the thread samples.
C15_FailureKeepsSampling ==
    /\ [][/\ (sampler.pc = "failed" /\ sampler' # sampler)
               => (sampler'.pc = "idle" /\ sampler'.error = sampler.error)
          /\ (sampler'.pc = "done" /\ sampler.pc # "done")
               => (sampler.pc = "idle" /\ stop_event)
          /\ (sampler.pc = "idle" /\ ~stop_event /\ sampler' # sampler)
               => sampler'.pc \in {"inserted", "failed"}]_vars
    /\ (sampler.pc = "failed") ~> (sampler.pc = "idle")

\* C15 witness: the loop is back at its test after a provider failure, stop not
\* requested, with points appended before the failure.
C15_Witness ==
    /\ sampler.pc = "idle"
    /\ sampler.error = "provider_error"
    /\ ~stop_event
    /\ latest_id >= 1
    /\ Len(samples) < MaxSamples

\* C16 as stated: a configure_business_profile call that fails leaves the business
\* fields, the catalog, the inventory, the feedback maps and the decision clock
\* exactly as they were before the call.
C16_AllOrNothing ==
    [][(last_op'.op = "configure" /\ ops' = ops + 1 /\ last_op'.error # "")
         => UNCHANGED <<business, item_profiles, inventory, last_inventory_timestamp,
                        last_decision_timestamp, last_decision_by_item,
                        feedback_multiplier_by_item, feedback_events_by_item>>]_vars

\* C16: a failed call on an engine that has decided and learnt: the catalog, the
\* inventory, the feedback and the clock are the old ones, the name is the new one.
C16_Witness ==
    /\ last_op.op = "configure"
    /\ last_op.error = "float"
    /\ business.business_name = "Taco Stand"
    /\ business.avg_ticket_usd = DefaultBusiness.avg_ticket_usd
    /\ last_decision_timestamp # NoTime
    /\ \E k \in DOMAIN feedback_events_by_item : feedback_events_by_item[k] > 0

\* C17: the trend a healthy tick reports is 0 when the history holds fewer than
\* two samples or its newest timestamp is not later than its oldest; otherwise it
\* is the rise in customers from the oldest to the newest sample of the history,
\* which holds at most HistoryMaxLen samples, divided by the minutes between the
\* two (in thousandths, rounded down).
C17_TrendOldestToNewest ==
    resp.kind = "ok"
    => LET n == Len(history)
           delta_sec == history[n].t - history[1].t
           rise == history[n].c - history[1].c
           trend == resp.trend_customers_per_min
       IN /\ n >= 1
          /\ n <= HistoryMaxLen
          /\ (n < 2 \/ delta_sec <= 0) => trend = 0
          /\ (n >= 2 /\ delta_sec > 0)
               => (trend * delta_sec <= rise * 60 /\ rise * 60 < (trend + 1) * delta_sec)

\* C17 witness: the history is full and has dropped its first samples, and a
\* positive trend is reported from the oldest sample still kept.
C17_Witness ==
    /\ resp.kind = "ok"
    /\ ops > HistoryMaxLen
    /\ Len(history) = HistoryMaxLen
    /\ resp.trend_customers_per_min > 0
    /\ history[1].t > decision_interval_sec

\* C17 witness of the zero case: two samples, the newer one not later than the older.
C17_WitnessNotLater ==
    /\ resp.kind = "ok"
    /\ Len(history) = 2
    /\ history[2].t <= history[1].t
    /\ history[2].c > history[1].c
    /\ resp.trend_customers_per_min = 0

\* the result of _decision_due agrees with the claim's rule, elapsed time being
\* counted as zero when the timestamp is earlier than the last decision; the
\* reported seconds r are given as the interval (r - 1, r] they stand for
ClockRule(interval, last, now, due, remaining_low, remaining_high) ==
    LET elapsed == IF last = NoTime THEN 0 ELSE Max(0, now - last)
    IN /\ due <=> (last = NoTime \/ elapsed >= interval)
       /\ due => remaining_high = 0
       /\ ~due => /\ remaining_high > 0
                  /\ remaining_low < interval - elapsed
                  /\ interval - elapsed <= remaining_high

\* C18: a healthy tick is due iff no tick has been due since construction or
\* reconfiguration, or the time from the last due tick to the snapshot is at least
\* the decision interval, which is never below 5 s; a due tick reports 0 seconds
\* remaining and makes its timestamp the last-decision timestamp; a tick that is
\* not due reports ceil(interval - elapsed) > 0 and leaves that timestamp alone.
C18_DecisionClock ==
    /\ [](clock_probe # NoProbe
            => /\ clock_probe.interval_sec >= 5
               /\ ClockRule(clock_probe.interval_sec * TenthsPerSec,
                            clock_probe.last_tenths, clock_probe.now_tenths,
                            clock_probe.due,
                            (clock_probe.remaining - 1) * TenthsPerSec,
                            clock_probe.remaining * TenthsPerSec))
    /\ [](last_decision_timestamp = committed.at)
    /\ [][(last_op'.op = "generate" /\ last_op'.status = "ok" /\ ops' = ops + 1)
            => /\ ClockRule(decision_interval_sec, committed.at, last_op'.timestamp,
                            resp'.decision_due,
                            resp'.next_decision_in_sec - 1, resp'.next_decision_in_sec)
               /\ resp'.decision_due => last_decision_timestamp' = last_op'.timestamp
               /\ ~resp'.decision_due
                    => last_decision_timestamp' = last_decision_timestamp]_vars

\* C18 witness: a tick 7 s after a due tick was told 23 s remain, and the clock
\* asked 29.7 s after a decision answers 1 s.
C18_Witness ==
    /\ resp.kind = "ok"
    /\ ~resp.decision_due
    /\ resp.next_decision_in_sec = decision_interval_sec - 7
    /\ last_decision_timestamp = 0
    /\ clock_probe.interval_sec = decision_interval_sec
    /\ clock_probe.last_tenths = 0
    /\ clock_probe.now_tenths = 297
    /\ clock_probe.remaining = 1

\* a thread's call of generate has just returned from _advance_inventory
Advanced(t) == threads[t].pc = "idle" /\ threads'[t].pc = "advanced"

\* C19: the first inventory advance since construction or reconfiguration (no
\* healthy tick has been served since) leaves every item's ready units and lot
\* queue as they were and records the snapshot's timestamp as the baseline.
C19_FirstAdvanceOnlyBaseline ==
    [][\A t \in Threads :
          (Advanced(t) /\ committed.at = NoTime)
          => /\ inventory' = inventory
             /\ last_inventory_timestamp = NoTime
             /\ last_inventory_timestamp' = threads'[t].snapshot[1].timestamp]_vars

\* C19 witness: after a served tick and a reconfiguration, a first advance at a
\* late timestamp with customers waiting has run, and the stock is the baseline.
C19_Witness ==
    \E t \in Threads :
       /\ threads[t].pc = "advanced"
       /\ committed.at = NoTime
       /\ item_profiles = DemoProfiles
       /\ Len(history) >= 2
       /\ threads[t].snapshot[1].total_customers > 0
       /\ last_inventory_timestamp = cook_time_sec
       /\ inventory = ResetInventoryState(DemoProfiles)

\* the lots of a queue that are ready by a time, those that are not, and the units
\* a sequence of lots holds
Matured(lots, now) == SelectSeq(lots, LAMBDA lot : lot.ready_at <= now)
Cooking(lots, now) == SelectSeq(lots, LAMBDA lot : lot.ready_at > now)
LotUnits(lots) == SumSeq([i \in 1..Len(lots) |-> Max(0, lots[i].units)])

\* C20: an inventory advance after the first takes out of every item's queue
\* exactly the lots with ready_at <= now, which stand at the head of the queue in
\* ready-at order, and adds their units to ready-units before the demand of the
\* elapsed time is subtracted; the lots with ready_at > now stay queued, so no
\* queued lot has ready_at <= now after the call.
C20_PromoteMatured ==
    /\ [](\A k \in DOMAIN inventory :
            \A i, j \in 1..Len(inventory[k].fryer_lots) :
               i < j => inventory[k].fryer_lots[i].ready_at
                          <= inventory[k].fryer_lots[j].ready_at)
    /\ [][\A t \in Threads :
            (Advanced(t) /\ committed.at # NoTime)
            => LET now == threads'[t].snapshot[1].timestamp
                   load == threads'[t].snapshot[1].total_customers * Scale
                   elapsed_sec == Max(0, now - last_inventory_timestamp)
               IN \A k \in DOMAIN item_profiles :
                     LET lots == inventory[k].fryer_lots
                         promoted == inventory[k].ready_units
                                        + LotUnits(Matured(lots, now)) * Scale
                     IN /\ inventory'[k].fryer_lots = Cooking(lots, now)
                        /\ \A i \in 1..Len(inventory'[k].fryer_lots) :
                              inventory'[k].fryer_lots[i].ready_at > now
                        /\ inventory'[k].ready_units =
                              Min(ReadyCap(k),
                                  Max(0, promoted - ConsumedUnits(load, item_profiles[k],
                                                                 elapsed_sec)))]_vars

\* C20 witness: an advance found two lots queued for an item, the first ready
\* exactly now and the second still cooking, and left only the second.
C20_Witness ==
    \E t \in Threads, k \in DOMAIN item_profiles :
       /\ threads[t].pc = "advanced"
       /\ committed.at # NoTime
       /\ k \in DOMAIN threads[t].saved[1].inventory
       /\ Len(threads[t].saved[1].inventory[k].fryer_lots) = 2
       /\ threads[t].saved[1].inventory[k].fryer_lots[1].ready_at
             = threads[t].snapshot[1].timestamp
       /\ Len(inventory[k].fryer_lots) = 1
       /\ inventory[k].fryer_lots[1].ready_at > threads[t].snapshot[1].timestamp

\* C21: in every state every item's queue of cooking lots is in strictly ascending
\* ready_at order from head to tail, whatever the order of the snapshot timestamps.
C21_QueueSorted ==
    \A k \in DOMAIN inventory :
       \A i \in 1..Len(inventory[k].fryer_lots) - 1 :
          inventory[k].fryer_lots[i].ready_at < inventory[k].fryer_lots[i + 1].ready_at

\* C21 witness: two lots are queued and the last tick served carried a timestamp
\* earlier than the last decision.
C21_Witness ==
    /\ last_op.op = "generate"
    /\ last_op.status = "ok"
    /\ last_op.timestamp < last_decision_timestamp
    /\ \E k \in DOMAIN inventory : Len(inventory[k].fryer_lots) >= 2

\* C22: a generate call leaves each item's queue as the advance left it (the lots
\* with ready_at > now) and, iff the tick is due and the item's recommended
\* quantity is positive, one more lot at the tail with that quantity and ready_at =
\* snapshot timestamp + cook time; a tick that is not due, a zero recommendation
\* and a fallback tick append nothing; every queued lot has a positive quantity.
C22_LotPerDueRecommendation ==
    /\ [](\A k \in DOMAIN inventory :
            \A i \in 1..Len(inventory[k].fryer_lots) :
               inventory[k].fryer_lots[i].units \in Nat \ {0})
    /\ [][(last_op'.op = "generate" /\ ops' = ops + 1)
            => \A k \in DOMAIN item_profiles :
                 LET now == last_op'.timestamp
                     kept == IF last_op'.status = "ok"
                             THEN Cooking(inventory[k].fryer_lots, now)
                             ELSE inventory[k].fryer_lots
                     units == resp'.items[k].recommended_units
                 IN inventory'[k].fryer_lots =
                       IF last_op'.status = "ok" /\ resp'.decision_due /\ units > 0
                       THEN Append(kept, [units |-> units,
                                          ready_at |-> now + cook_time_sec])
                       ELSE kept]_vars

\* C22 witness: a due tick has put a lot with the recommended quantity behind an
\* older lot.
C22_Witness ==
    /\ last_op.op = "generate"
    /\ last_op.status = "ok"
    /\ resp.decision_due
    /\ \E k \in DOMAIN inventory :
          LET lots == inventory[k].fryer_lots
          IN /\ Len(lots) >= 2
             /\ lots[Len(lots)] = [units |-> resp.items[k].recommended_units,
                                   ready_at |-> last_op.timestamp + cook_time_sec]

\* C22 witness of the other side: a due tick recommended nothing for an item
\* that has a lot cooking, and its queue holds just that lot.
C22_WitnessNothingRecommended ==
    /\ last_op.op = "generate"
    /\ last_op.status = "ok"
    /\ resp.decision_due
    /\ \E k \in DOMAIN inventory :
          /\ resp.items[k].recommended_units = 0
          /\ Len(inventory[k].fryer_lots) = 1
          /\ inventory[k].fryer_lots[1].ready_at < last_op.timestamp + cook_time_sec

\* the claimed signal and multiplier, in thousandths rounded down
ClaimedSignal(action, recommended, chosen) ==
    LET rec == IF recommended < 0 THEN 0 ELSE recommended
        cho == IF chosen < 0 THEN 0 ELSE chosen
        ratio == (cho * Scale) \div (IF rec < 1 THEN 1 ELSE rec)
    IN IF action \in {"accept", "Accept", " accept "} THEN Scale
       ELSE IF ratio < 650 THEN 650 ELSE IF ratio > 1350 THEN 1350 ELSE ratio

ClaimedMultiplier(old, signal) ==
    LET blended == (820 * old + 180 * signal) \div Scale
    IN IF blended < 750 THEN 750 ELSE IF blended > 1250 THEN 1250 ELSE blended

\* C23: a feedback call for a known item sets that item's multiplier to
\* clamp(0.82 x old + 0.18 x signal, 0.75, 1.25), where signal is 1.0 for accept and
\* clamp(chosen / max(1, recommended), 0.65, 1.35) for any other action, negative
\* quantities counting as 0.
C23_FeedbackRule ==
    [][(last_op'.op = "feedback" /\ ops' = ops + 1 /\ last_op'.error = "")
         => LET k == last_op'.item_key
            IN /\ k \in DOMAIN feedback_multiplier_by_item
               /\ feedback_multiplier_by_item'[k] =
                    ClaimedMultiplier(feedback_multiplier_by_item[k],
                                      ClaimedSignal(last_op'.status,
                                                    last_op'.recommended_units,
                                                    last_op'.chosen_units))]_vars

\* C23 witness: an override of a negative recommendation by one unit, on an item
\* whose multiplier earlier feedback had moved off 1.0 and off the bounds.
C23_Witness ==
    /\ last_op.op = "feedback"
    /\ last_op.error = ""
    /\ last_op.status = "override"
    /\ last_op.recommended_units < 0
    /\ last_op.chosen_units = 1
    /\ feedback_events_by_item[last_op.item_key] >= 3
    /\ feedback_multiplier_by_item[last_op.item_key] \notin {750, Scale, 1250}

\* the step is a successful feedback call for item k; the step is a configure call
FeedbackFor(k) ==
    /\ last_op'.op = "feedback"
    /\ ops' = ops + 1
    /\ last_op'.error = ""
    /\ last_op'.item_key = k
Reconfigures == last_op'.op = "configure" /\ ops' = ops + 1

FeedbackStateKept(k) ==
    /\ k \in DOMAIN feedback_multiplier_by_item'
    /\ feedback_multiplier_by_item'[k] = feedback_multiplier_by_item[k]
    /\ feedback_events_by_item'[k] = feedback_events_by_item[k]

\* C24 as stated: the multiplier and event counter of an item of the catalog
\* are changed by nothing but a feedback call for that item, which adds exactly 1
\* to the counter.
C24_OnlyFeedback ==
    [][\A k \in DOMAIN feedback_multiplier_by_item :
          /\ (~FeedbackFor(k) /\ k \in DOMAIN item_profiles') => FeedbackStateKept(k)
          /\ FeedbackFor(k) => feedback_events_by_item'[k] = feedback_events_by_item[k] + 1]_vars

\* C24 amended: generate, healthy or fallback and at any later time, and
\* feedback for other items leave an item's multiplier and event counter
\* unchanged; a successful feedback call for the item adds exactly 1 to its
\* counter; a successful reconfiguration sets every multiplier to 1.0 and every
\* counter to 0.
C24_OnlyFeedbackOrReconfiguration ==
    [][/\ \A k \in DOMAIN feedback_multiplier_by_item :
            /\ (~FeedbackFor(k) /\ ~Reconfigures) => FeedbackStateKept(k)
            /\ FeedbackFor(k)
                 => feedback_events_by_item'[k] = feedback_events_by_item[k] + 1
       /\ (Reconfigures /\ last_op'.error = "")
            => /\ DOMAIN feedback_multiplier_by_item' = DOMAIN item_profiles'
               /\ \A j \in DOMAIN item_profiles' :
                     /\ feedback_multiplier_by_item'[j] = Scale
                     /\ feedback_events_by_item'[j] = 0]_vars

\* C24 witness: a healthy tick a decision interval later has been served, and an item
\* still carries the multiplier and the count that feedback gave it.
C24_Witness ==
    /\ last_op.op = "generate"
    /\ last_op.status = "ok"
    /\ last_op.timestamp >= decision_interval_sec
    /\ \E k \in DOMAIN feedback_multiplier_by_item :
          /\ feedback_multiplier_by_item[k] # Scale
          /\ feedback_events_by_item[k] >= 1
          /\ resp.items[k].feedback_multiplier = feedback_multiplier_by_item[k]

\* twice the seconds from the epoch to a record's cutoff: its timestamp plus its
\* forecast horizon (minutes in thousandths); the record's timestamp is readable
HalfSecondsToCutoff(row) ==
    2 * row.timestamp.sec + (IF row.timestamp.half THEN 1 ELSE 0)
      + (2 * 60 * row.forecast_horizon_min) \div Scale
Readable(row) == row.timestamp.zone # "garbage"

Unrealized(row) ==
    /\ row.outcome_status = "pending"
    /\ row.evaluated_at = None
    /\ row.actual_customers = None
    /\ row.forecast_error_customers = None
    /\ row.realized_waste_delta_units = None
    /\ row.realized_cost_delta_usd = None
    /\ row.realized_revenue_delta_usd = None

\* C25: a step at a time before a pending record's cutoff (timestamp + forecast
\* horizon) leaves the record as it is, pending with every realized field empty; a
\* record leaves pending only in a sweep that ran at or after its cutoff; the
\* record_feedback call that inserts a record leaves it pending, whatever its
\* timestamp.
C25_NotBeforeCutoff ==
    /\ [](\A i \in 1..Len(feedback_rows) :
            feedback_rows[i].outcome_status = "pending" => Unrealized(feedback_rows[i]))
    /\ [][/\ \A i \in 1..Len(feedback_rows) :
              LET row == feedback_rows[i]
              IN /\ (row.outcome_status = "pending" /\ Readable(row)
                        /\ 2 * wall_now < HalfSecondsToCutoff(row))
                      => feedback_rows'[i] = row
                 /\ (row.outcome_status = "pending" /\ feedback_rows'[i] # row)
                      => /\ Readable(row)
                         /\ 2 * wall_now >= HalfSecondsToCutoff(row)
                         /\ store_ops' = store_ops + 1
                         /\ store_op'.error \in {"", "insert_failed"}
                         /\ Terminal(feedback_rows'[i])
          /\ \A i \in 1..Len(feedback_rows') :
                i > Len(feedback_rows) => Unrealized(feedback_rows'[i])]_vars

HalfSeconds(text) == 2 * text.sec + (IF text.half THEN 1 ELSE 0)

\* the metric samples with stream health ok or degraded stamped within
\* [record.timestamp, record.timestamp + horizon]
SamplesInWindow(row) ==
    { i \in 1..Len(samples) :
        /\ samples[i].stream_status \in {"ok", "degraded"}
        /\ HalfSeconds(row.timestamp) <= HalfSeconds(samples[i].timestamp)
        /\ HalfSeconds(samples[i].timestamp) <= HalfSecondsToCutoff(row) }

LeavesPending(i) ==
    /\ i \in 1..Len(feedback_rows)
    /\ feedback_rows[i].outcome_status = "pending"
    /\ feedback_rows'[i].outcome_status # "pending"

\* C26: a record that leaves pending becomes insufficient_data iff no ok or
\* degraded sample is stamped within [timestamp, timestamp + horizon]; otherwise it
\* becomes evaluated with actual customers the average of exactly those samples.
C26_WindowByTime ==
    [][\A i \in 1..Len(feedback_rows) :
          LeavesPending(i) =>
            LET row == feedback_rows[i]
                window == SamplesInWindow(row)
            IN IF window = {}
               THEN feedback_rows'[i].outcome_status = "insufficient_data"
               ELSE /\ feedback_rows'[i].outcome_status = "evaluated"
                    /\ feedback_rows'[i].actual_customers
                         = Some(SumCustomers(window, samples) \div Cardinality(window))]_vars

\* C26 witness: a record was evaluated over an ok and a degraded sample while an
\* error sample stamped inside its window was left out.
C26_Witness ==
    \E i \in 1..Len(feedback_rows) :
        /\ feedback_rows[i].outcome_status = "evaluated"
        /\ Cardinality(SamplesInWindow(feedback_rows[i])) = 2
        /\ \E j \in 1..Len(samples) :
              /\ samples[j].stream_status = "error"
              /\ HalfSeconds(feedback_rows[i].timestamp) <= HalfSeconds(samples[j].timestamp)
              /\ HalfSeconds(samples[j].timestamp) <= HalfSecondsToCutoff(feedback_rows[i])
        /\ feedback_rows[i].actual_customers
             = Some(SumCustomers(SamplesInWindow(feedback_rows[i]), samples) \div 2)

\* the pending records whose forecast horizon has elapsed
DuePending ==
    { i \in 1..Len(feedback_rows) :
        /\ feedback_rows[i].outcome_status = "pending"
        /\ Readable(feedback_rows[i])
        /\ 2 * wall_now >= HalfSecondsToCutoff(feedback_rows[i]) }

SweepCommits ==
    /\ store_ops' = store_ops + 1
    /\ store_op'.error \in {"", "insert_failed"}

\* C27: a sweep moves out of pending exactly the oldest (by id) due pending
\* records, at most the limit per sweep: all of them when fewer than the limit
\* are due.
C27_OldestDueSwept ==
    [][SweepCommits =>
          { i \in 1..Len(feedback_rows) : LeavesPending(i) }
             = FirstIds(DuePending, SweepLimit)]_vars

\* C27 witness: a sweep has moved as many records as the limit allows, the oldest
\* ones, and a younger due record still waits.
C27_Witness ==
    /\ sweeps.count > 0
    /\ Cardinality({ i \in 1..Len(feedback_rows) :
                       sweeps.left_pending_in[i] = sweeps.count }) = SweepLimit
    /\ \E j \in DuePending :
          \A i \in 1..Len(feedback_rows) : sweeps.left_pending_in[i] = sweeps.count => i < j

\* customers x units per order, before rounding, in thousandths of a unit
UnitsNeeded(row) == MulMilli(row.actual_customers[1], row.units_per_order)

RequiredUnits(row) == RoundHalfEven(UnitsNeeded(row))

WasteDelta(row) ==
    Max(0, row.baseline_units - RequiredUnits(row))
      - Max(0, row.chosen_units - RequiredUnits(row))

ShortfallDelta(row) ==
    Max(0, RequiredUnits(row) - row.baseline_units)
      - Max(0, RequiredUnits(row) - row.chosen_units)

\* units / unitsPerOrder x avgTicket, in thousandths of a dollar
OrdersTimesTicket(units, row) ==
    MulMilli((units * Scale * Scale) \div row.units_per_order, row.avg_ticket_usd)

\* C28: every evaluated record holds requiredUnits = round(actual customers x
\* units per order), waste delta = max(0, baseline - required) - max(0, chosen -
\* required), cost delta = waste delta x unit cost, revenue delta = (max(0,
\* required - baseline) - max(0, required - chosen)) / units per order x average
\* ticket, and forecast error = actual - projected customers.
C28_RealizedFormulas ==
    \A i \in 1..Len(feedback_rows) :
        LET row == feedback_rows[i]
        IN row.outcome_status = "evaluated" =>
             /\ row.actual_customers # None
             /\ row.realized_waste_delta_units = Some(WasteDelta(row))
             /\ row.realized_cost_delta_usd = Some(WasteDelta(row) * row.unit_cost_usd)
             /\ row.realized_revenue_delta_usd
                  = Some(IF ShortfallDelta(row) >= 0
                         THEN OrdersTimesTicket(ShortfallDelta(row), row)
                         ELSE 0 - OrdersTimesTicket(0 - ShortfallDelta(row), row))
             /\ row.forecast_error_customers
                  = Some(row.actual_customers[1] - row.projected_customers)

\* C28 witness: an evaluated record whose choice fell short of the units needed
\* where the baseline did not (a negative revenue delta, a negative waste delta),
\* and one whose customers x units landed exactly on a half.
C28_Witness ==
    /\ \E i \in 1..Len(feedback_rows) :
          /\ feedback_rows[i].outcome_status = "evaluated"
          /\ ShortfallDelta(feedback_rows[i]) < 0
          /\ WasteDelta(feedback_rows[i]) > 0
    /\ \E i \in 1..Len(feedback_rows) :
          /\ feedback_rows[i].outcome_status = "evaluated"
          /\ UnitsNeeded(feedback_rows[i]) % Scale = Scale \div 2

\* a reader is in _wait_for_point_after and a point newer than its cursor is out
NewerPublished(s) == InWait(subs[s]) /\ latest_id > subs[s].cursor

\* the reader's wait has just returned
WaitReturns(s) == InWait(subs[s]) /\ subs'[s].pc = "got"

\* C29 (no lost wake-up): a reader blocked in wait() while a point newer than
\* its cursor is published has been notified; its wait then returns a point of the
\* ring with an id above the cursor, never a timeout, however the publication
\* falls relative to the reader's check and wait; and it does return.
C29_NoLostWakeup ==
    /\ [](\A s \in DOMAIN subs :
            (subs[s].pc = "waiting" /\ latest_id > subs[s].cursor) => subs[s].notified)
    /\ [][\A s \in DOMAIN subs :
              (NewerPublished(s) /\ WaitReturns(s)) =>
                 /\ subs'[s].last_wait = "point"
                 /\ subs'[s].point # None
                 /\ subs'[s].point[1].id > subs[s].cursor
                 /\ \E i \in 1..Len(store_history) : store_history[i] = subs'[s].point[1]]_vars
    /\ \A s \in Subscribers :
          (s \in DOMAIN subs /\ NewerPublished(s))
             ~> (subs[s].pc = "got" /\ subs[s].last_wait = "point")

\* C29 witness: a reader that had been blocked for a while was woken by a
\* publication before its deadline and has returned the new point.
C29_Witness ==
    \E s \in DOMAIN subs :
        /\ subs[s].pc = "got"
        /\ subs[s].notified
        /\ subs[s].waited > 0
        /\ subs[s].remaining > 0
        /\ subs[s].last_wait = "point"
        /\ subs[s].point # None
        /\ subs[s].point[1].id = latest_id
        /\ subs[s].point[1].id > subs[s].cursor

Holds(t, lock) == Holder(lock) = t

Blocked(t) ==
    /\ workers[t].todo # <<>>
    /\ workers[t].held = <<>>
    /\ Holder(Head(workers[t].todo)) # "free"

CanStep(t) ==
    \/ workers[t].held # <<>>
    \/ workers[t].todo # <<>> /\ Holder(Head(workers[t].todo)) = "free"

\* C30: no thread holds the storage lock together with the engine mutex or with
\* the history lock; every thread holds at most one of the three locks at a time;
\* and the threads never deadlock: a thread waiting for a lock waits for a holder
\* that can go on, and while any call is unfinished some thread can step.
C30_OneLockAtATime ==
    /\ \A t \in Workers :
          /\ ~(Holds(t, "db_lock") /\ Holds(t, "reco_lock"))
          /\ ~(Holds(t, "db_lock") /\ Holds(t, "history_lock"))
          /\ Cardinality({ lock \in {"reco_lock", "db_lock", "history_lock"} :
                             Holds(t, lock) }) <= 1
          /\ Len(workers[t].held) <= 1
          /\ \A i \in 1..Len(workers[t].held) : Holds(t, workers[t].held[i])
          /\ Blocked(t) =>
                /\ Holder(Head(workers[t].todo)) \in Workers \ {t}
                /\ CanStep(Holder(Head(workers[t].todo)))
    /\ (\E t \in Workers : workers[t] # IdleWorker) => (\E t \in Workers : CanStep(t))

\* C30 witness: the three locks are held at once by three threads; the sampler is
\* inside its storage call, the engine mutex released, and will wait for the
\* history lock a subscription holds.
C30_Witness ==
    /\ Holds("sampler", "db_lock")
    /\ workers["sampler"].todo = <<"history_lock">>
    /\ Holds("api", "reco_lock")
    /\ Holds("stream", "history_lock")

\* the step is one generate() call, healthy or fallback
GenerateStep == ops' = ops + 1 /\ last_op'.op = "generate"

\* what _advance_inventory, run once with the tick's timestamp and load, leaves
AdvancedForTick ==
    AdvanceInventory(inventory, item_profiles, last_inventory_timestamp,
                     last_op'.timestamp, last_op'.customers * Scale)

\* C31: on every tick that builds a recommendation, healthy or fallback, the
\* inventory figures the planner reads are those left by one run of the
\* inventory advance step with the tick's own timestamp, and the inventory
\* baseline records that run.
C31_AdvancedBeforeRead ==
    [][GenerateStep =>
          /\ last_inventory_timestamp' =
                AdvanceTimestamp(last_inventory_timestamp, last_op'.timestamp)
          /\ \A k \in DOMAIN item_profiles :
                /\ resp'.items[k].ready_inventory_units =
                      Max(0, RoundToNearestUnit(AdvancedForTick[k].ready_units))
                /\ resp'.items[k].fryer_inventory_units =
                      Max(0, FryerUnits(AdvancedForTick[k]))]_vars

\* C31 witness: a healthy tick has run the advance step over elapsed time (the
\* baseline moved to the tick's timestamp) and reports the advanced figures.
C31_Witness ==
    /\ last_op.op = "generate"
    /\ last_op.status = "ok"
    /\ resp # NoResp
    /\ resp.kind # "unavailable"
    /\ Len(history) >= 2
    /\ history[Len(history) - 1].t < last_op.timestamp
    /\ last_inventory_timestamp = last_op.timestamp
    /\ \E k \in DOMAIN item_profiles :
          /\ inventory[k].ready_units <
                Min(item_profiles[k].baseline_drop_units,
                    item_profiles[k].max_unit_size) * Scale
          /\ resp.items[k].ready_inventory_units =
                Max(0, RoundToNearestUnit(inventory[k].ready_units))

\* the step is a healthy generate() call
HealthyStep == GenerateStep /\ last_op'.status = "ok"

\* C32: a reconfiguration leaves the inventory, last-decision and feedback maps
\* with exactly the new catalog's keys, every item with min(baseline,
\* max_unit_size) ready units, no lot, multiplier 1.0 and no feedback event, and
\* the inventory baseline and the decision clock cleared; a healthy generate
\* that finds the decision clock cleared is a due tick.
C32_ReconfigurationRebuilds ==
    [][/\ (Reconfigures /\ last_op'.error = "") =>
             /\ DOMAIN inventory' = DOMAIN item_profiles'
             /\ DOMAIN last_decision_by_item' = DOMAIN item_profiles'
             /\ DOMAIN feedback_multiplier_by_item' = DOMAIN item_profiles'
             /\ DOMAIN feedback_events_by_item' = DOMAIN item_profiles'
             /\ \A k \in DOMAIN item_profiles' :
                   /\ inventory'[k].ready_units =
                         Min(item_profiles'[k].baseline_drop_units,
                             item_profiles'[k].max_unit_size) * Scale
                   /\ inventory'[k].fryer_lots = <<>>
                   /\ last_decision_by_item'[k] = 0
                   /\ feedback_multiplier_by_item'[k] = Scale
                   /\ feedback_events_by_item'[k] = 0
             /\ last_inventory_timestamp' = NoTime
             /\ last_decision_timestamp' = NoTime
       /\ (HealthyStep /\ last_decision_timestamp = NoTime) =>
             /\ resp'.decision_due
             /\ last_decision_timestamp' = last_op'.timestamp]_vars

\* C32 witness: a smaller catalog was configured over an engine that had
\* served a healthy tick, and a second healthy tick with the same timestamp,
\* which the decision clock would have held, was a due tick on the new catalog.
C32_Witness ==
    /\ item_profiles = DemoProfiles
    /\ DOMAIN inventory = DOMAIN DemoProfiles
    /\ last_op.op = "generate"
    /\ last_op.status = "ok"
    /\ resp.decision_due
    /\ Len(history) >= 2
    /\ history[Len(history) - 1].t = last_op.timestamp
    /\ last_decision_timestamp = last_op.timestamp
    /\ committed.at = last_op.timestamp

Rank(urgency) == IF urgency = "high" THEN 2 ELSE IF urgency = "medium" THEN 1 ELSE 0

\* clamp((projectedDemand - availableSupply) / projectedDemand, 0, 1), thousandths
ClaimedShortfallRatio(gap) ==
    IF gap.demand_units > 0
    THEN Clamp(((gap.demand_units - gap.inventory_units) * Scale) \div gap.demand_units,
               0, Scale)
    ELSE 0

\* C33: the shortfall ratio is clamp((demand - supply) / demand, 0, 1) for a
\* positive projected demand and 0 otherwise; with a positive demand urgency is
\* high from the high threshold, medium from the medium threshold, else low;
\* without projected demand it is low; of two gaps, the one with the larger
\* ratio never has the lower urgency.
C33_UrgencyClassification ==
    /\ \A i \in DOMAIN urgency_probe.gaps :
          LET gap == urgency_probe.gaps[i]
          IN /\ gap.shortfall_ratio = ClaimedShortfallRatio(gap)
             /\ gap.demand_units > 0 =>
                   gap.urgency =
                      IF gap.shortfall_ratio >= urgency_probe.high THEN "high"
                      ELSE IF gap.shortfall_ratio >= urgency_probe.medium THEN "medium"
                      ELSE "low"
             /\ gap.demand_units <= 0 => gap.urgency = "low"
    /\ \A i, j \in DOMAIN urgency_probe.gaps :
          urgency_probe.gaps[i].shortfall_ratio < urgency_probe.gaps[j].shortfall_ratio
             => Rank(urgency_probe.gaps[i].urgency) <= Rank(urgency_probe.gaps[j].urgency)

\* C33 witness: under the default thresholds a gap exactly at the high threshold
\* is high and a gap just under it is medium.
C33_Witness ==
    /\ urgency_probe.gaps # <<>>
    /\ urgency_probe.medium = DefaultMediumRatio
    /\ urgency_probe.high = DefaultHighRatio
    /\ urgency_probe.gaps[1].shortfall_ratio = DefaultHighRatio
    /\ urgency_probe.gaps[1].urgency = "high"
    /\ urgency_probe.gaps[2].shortfall_ratio = DefaultHighRatio - 1
    /\ urgency_probe.gaps[2].urgency = "medium"

\* C34: both thresholds lie in [0, 1] and high >= medium; thresholds configured
\* with high < medium are swapped: the effective high is the configured medium
\* and the effective medium is the configured high.
C34_ThresholdsSwapped ==
    urgency_probe.gaps # <<>> =>
       /\ urgency_probe.medium \in 0..Scale
       /\ urgency_probe.high \in 0..Scale
       /\ urgency_probe.high >= urgency_probe.medium
       /\ urgency_probe.configured_high < urgency_probe.configured_medium =>
             /\ urgency_probe.high = Clamp(urgency_probe.configured_medium, 0, Scale)
             /\ urgency_probe.medium = Clamp(urgency_probe.configured_high, 0, Scale)

\* C34 witness: an engine configured with the high threshold under the medium one
\* ends with both thresholds at the configured medium.
C34_Witness ==
    /\ urgency_probe.gaps # <<>>
    /\ urgency_probe.configured_medium = DefaultHighRatio
    /\ urgency_probe.configured_high = DefaultMediumRatio
    /\ urgency_probe.high = DefaultHighRatio
    /\ urgency_probe.medium = DefaultHighRatio

\* the step is a generate() call on a snapshot whose stream status is not ok
FallbackStep == GenerateStep /\ last_op'.status # "ok"

\* C35: a generate call on a non-ok snapshot appends nothing to the trend
\* history, leaves every item's ready units and lot queue and the inventory
\* baseline as they were, commits no lot, and leaves the decision clock and the
\* held per-item decisions unchanged.
C35_FallbackReadOnly ==
    [][FallbackStep =>
          /\ history' = history
          /\ inventory' = inventory
          /\ last_inventory_timestamp' = last_inventory_timestamp
          /\ committed' = committed
          /\ ledger' = ledger
          /\ last_decision_timestamp' = last_decision_timestamp
          /\ last_decision_by_item' = last_decision_by_item]_vars

\* C35 witness: a fallback tick was served a decision interval after a healthy
\* tick that committed lots; the lots are still queued, the inventory baseline
\* and the decision clock still show the healthy tick.
C35_Witness ==
    /\ last_op.op = "generate"
    /\ last_op.status = "degraded"
    /\ resp.kind = "unavailable"
    /\ Len(history) = 1
    /\ last_op.timestamp >= history[1].t + decision_interval_sec
    /\ last_inventory_timestamp = history[1].t
    /\ last_decision_timestamp = history[1].t
    /\ committed.at = history[1].t
    /\ \E k \in DOMAIN item_profiles :
          /\ inventory[k].fryer_lots # <<>>
          /\ last_decision_by_item[k] > 0

\* C36: after every healthy generate call the decision timestamp is at most the
\* inventory timestamp, which is less than the decision timestamp plus the
\* decision interval; only a reconfiguration moves either timestamp backward;
\* a healthy snapshot not newer than the inventory timestamp changes no ready
\* units and no lot queue, commits no lot and is not a due tick.
C36_TimestampsOrdered ==
    [][/\ HealthyStep =>
             /\ last_decision_timestamp' # NoTime
             /\ last_decision_timestamp' <= last_inventory_timestamp'
             /\ last_inventory_timestamp' < last_decision_timestamp' + decision_interval_sec
       /\ (\/ last_inventory_timestamp' < last_inventory_timestamp
           \/ last_decision_timestamp' < last_decision_timestamp) => Reconfigures
       /\ (/\ HealthyStep
           /\ last_inventory_timestamp # NoTime
           /\ last_op'.timestamp <= last_inventory_timestamp) =>
             /\ inventory' = inventory
             /\ committed' = committed
             /\ ~resp'.decision_due
             /\ last_inventory_timestamp' = last_inventory_timestamp
             /\ last_decision_timestamp' = last_decision_timestamp]_vars

\* C36 witness: a healthy snapshot older than the inventory timestamp was
\* served after a tick that advanced inventory without being due; lots are
\* queued, and the three timestamps are strictly ordered.
C36_Witness ==
    /\ last_op.op = "generate"
    /\ last_op.status = "ok"
    /\ ~resp.decision_due
    /\ Len(history) >= 3
    /\ last_op.timestamp < last_inventory_timestamp
    /\ last_decision_timestamp < last_inventory_timestamp
    /\ \E k \in DOMAIN item_profiles : inventory[k].fryer_lots # <<>>

\* the realized figures of a feedback record
RealizedFigures(row) ==
    { row.actual_customers, row.forecast_error_customers,
      row.realized_waste_delta_units, row.realized_cost_delta_usd,
      row.realized_revenue_delta_usd }

\* C37: in every committed state of the feedback table a pending record has no
\* evaluated_at and no realized figure; an insufficient_data record has
\* evaluated_at and no realized figure; an evaluated record has evaluated_at,
\* actual customers, forecast error and the realized waste, cost and revenue
\* deltas.
C37_FieldsAgreeWithStatus ==
    \A i \in 1..Len(feedback_rows) :
       LET row == feedback_rows[i]
       IN /\ row.outcome_status \in {"pending", "insufficient_data", "evaluated"}
          /\ row.outcome_status = "pending" =>
                row.evaluated_at = None /\ RealizedFigures(row) = {None}
          /\ row.outcome_status = "insufficient_data" =>
                row.evaluated_at # None /\ RealizedFigures(row) = {None}
          /\ row.outcome_status = "evaluated" =>
                row.evaluated_at # None /\ None \notin RealizedFigures(row)

\* C37 witness: the table holds a record of each status at once, the evaluated
\* one with a forecast error that is not zero.
C37_Witness ==
    \E i, j, k \in 1..Len(feedback_rows) :
       /\ feedback_rows[i].outcome_status = "pending"
       /\ feedback_rows[j].outcome_status = "insufficient_data"
       /\ feedback_rows[k].outcome_status = "evaluated"
       /\ feedback_rows[k].forecast_error_customers # Some(0)

\* C38: in every state a reader can observe under the history lock the ring
\* buffer's ids are strictly increasing and, when it is not empty, the latest-id
\* counter is the id of its newest entry; the counter never decreases.
C38_RingAndCounterAgree ==
    /\ [](/\ \A i, j \in 1..Len(store_history) :
                i < j => store_history[i].id < store_history[j].id
          /\ store_history # <<>> => latest_id = store_history[Len(store_history)].id)
    /\ [][latest_id' >= latest_id]_vars

\* C38 witness: over a buffer hydrated full from the database the sampler has
\* published a point, evicting the oldest entry; a reader holds the lock's
\* condition and the counter shows the new point.
C38_Witness ==
    /\ Len(store_history) = MemoryPoints
    /\ store_history[1].id > 1
    /\ latest_id = Len(samples)
    /\ latest_id > MemoryPoints + 1
    /\ latest_metrics # None
    /\ \E s \in Subscribers : subs[s].pc = "waiting" /\ subs[s].notified

\* record i is pending and its timestamp plus its horizon has passed
DueAt(i) ==
    /\ i \in 1..Len(feedback_rows)
    /\ feedback_rows[i].outcome_status = "pending"
    /\ Readable(feedback_rows[i])
    /\ HalfSecondsToCutoff(feedback_rows[i]) <= 2 * wall_now

\* C39: while calls that run the sweep keep occurring, every pending record
\* whose timestamp plus horizon has passed eventually is evaluated or
\* insufficient_data, whatever other pending records the table holds.
C39_DueEventuallyEvaluated ==
    \A i \in 1..MaxLiveOps :
       DueAt(i) ~> (i \in 1..Len(feedback_rows) /\ Terminal(feedback_rows[i]))

\* C39 witness: a sweep has moved a due record out of pending while a younger
\* record, not yet due, stays pending.
C39_Witness ==
    /\ store_op.op = "get_feedback_summary"
    /\ store_op.error = ""
    /\ \E i, j \in 1..Len(feedback_rows) :
          /\ i < j
          /\ Terminal(feedback_rows[i])
          /\ sweeps.left_pending_in[i] = sweeps.count
          /\ feedback_rows[j].outcome_status = "pending"
          /\ ~DueAt(j)

\* the stop event is set before and after the step: stop() was called and the
\* store has not been started again
StaysStopped == stop_event /\ stop_event'

\* after stop(): no subscriber starts a wait; a wait in progress ends without
\* waiting again; the loop test of stream_events ends the subscription
SubscribersWindDown ==
    \A s \in DOMAIN subs :
       /\ subs'[s].pc = "call" => subs[s].pc = "call"
       /\ subs[s].pc \in {"call", "waiting"} => subs'[s].pc \in {subs[s].pc, "got"}
       /\ subs[s].pc = "got" /\ subs'[s] # subs[s] => subs'[s].pc = "loop"
       /\ subs[s].pc = "loop" /\ subs'[s] # subs[s] => subs'[s].pc = "done"
       /\ subs[s].pc = "done" => subs'[s] = subs[s]

C25_Witness ==
    /\ store_op.error = ""
    /\ \E i, j \in 1..Len(feedback_rows) :
          /\ feedback_rows[i].outcome_status = "pending"
          /\ Readable(feedback_rows[i])
          /\ HalfSecondsToCutoff(feedback_rows[i]) = 2 * wall_now + 1
          /\ Terminal(feedback_rows[j])
          /\ sweeps.left_pending_in[j] = sweeps.count
          /\ HalfSecondsToCutoff(feedback_rows[j]) = 2 * wall_now

====
